---- MODULE Spec2Model ----
(***************************************************************************)
(* A model of the component loader (ComponentLoader, src/unnamed/part_000) *)
(* and of the CSS helpers it calls (CSSParser, cssParser.js).              *)
(*                                                                         *)
(* JavaScript runs one task at a time and runs every promise continuation   *)
(* that becomes ready (the microtasks) before the next task.  Every action  *)
(* below is one task: a call of a public operation, the arrival of a fetch  *)
(* response or failure, or the firing of a timer, with all the code that    *)
(* runs until the next wait for the network or a timer.  Scope ids and load *)
(* ids are `${name}-${Date.now()}-${random}` strings; the model writes the  *)
(* id of the n-th load attempt as n, for the load id as well as for the     *)
(* scope id of the render it performs.                                      *)
(***************************************************************************)
EXTENDS Integers, Sequences, FiniteSets, TLC

VARIABLES
  placeholders,   \* the [data-component] elements of the document, in document order
  config,         \* ComponentLoader.config and the globals the code tests
  dataset,        \* per placeholder: its data-* attributes
  content,        \* per placeholder: its innerHTML
  shadow,         \* per placeholder: its shadow root
  components,     \* ComponentLoader.components, the cache
  styles,         \* ComponentLoader.styles, scope id -> injected style elements
  head,           \* the <style> elements attached to document.head
  loadingStates,  \* ComponentLoader.loadingStates, load id -> record
  loads,          \* the calls of loadComponent, by load id
  initCall,       \* the call of init
  reloads,        \* the calls of reload
  reloadAlls,     \* the calls of reloadAll
  network,        \* what the server may answer: [texts, errors]
  calls,          \* the calls of public operations that may still be made
  scoping         \* a call of CSSParser.scopeRule, and of it again on its result

vars == <<placeholders, config, dataset, content, shadow, components, styles,
          head, loadingStates, loads, initCall, reloads, reloadAlls, network,
          calls, scoping>>

----------------------------------------------------------------------------
(* Bounds of the model *)

\* Calls of the public operations (init, loadComponent, the Retry button,
\* reload, reloadAll, clearCache, cleanup) in one behaviour.
MaxCalls == 2
\* Largest configured retryCount in the retry specification.
MaxRetry == 3
\* Calls of loadComponent and clicks on Retry in the retry specification.
RetryCalls == 2
\* Calls of loadComponent, reload and clearCache in the cache specification.
CacheCalls == 2
\* Calls of init and reload in the reload specification.
ReloadCalls == 2
\* Calls of init in the batch specification.
BatchCalls == 1
\* Calls of the public operations in the instances specification.
InstanceCalls == 2
\* Calls of loadComponent and reload in the resources specification.
ResourceCalls == 2
\* Calls of init and loadComponent in the fair specification.
FairCalls == 2
\* Placeholders of the document in the batch specification.
NumBatchPlaceholders == 6
\* Selectors in the selector list of a rule handed to the rule scoper.
MaxSelectors == 2

(* Program constants *)
batchSize == 5
batchDelay == 50
retryDelay == 1000

----------------------------------------------------------------------------
(* Values *)

EmptyMap == [x \in {} |-> 0]

MapSet(m, k, v) == [x \in (DOMAIN m) \cup {k} |-> IF x = k THEN v ELSE m[x]]

MapDelete(m, k) == [x \in (DOMAIN m) \ {k} |-> m[x]]

Max(S) == CHOOSE x \in S : \A y \in S : y <= x

\* What a failed fetch throws: `HTTP ${status}: ${statusText}`, or fetch's own rejection.
FetchErrors == {"HTTP 404", "HTTP 500"}

InvalidCSSError == "Invalid CSS syntax"

Whitespace == {" ", "\n", "\t"}

RECURSIVE TrimLeft(_)
TrimLeft(s) ==
  IF s # <<>> /\ Head(s) \in Whitespace THEN TrimLeft(Tail(s)) ELSE s

RECURSIVE TrimRight(_)
TrimRight(s) ==
  IF s # <<>> /\ s[Len(s)] \in Whitespace
    THEN TrimRight(SubSeq(s, 1, Len(s) - 1))
    ELSE s

\* String.prototype.trim
Trim(s) == TrimRight(TrimLeft(s))

\* String.prototype.includes, for a one-character argument
Includes(s, c) == \E i \in 1..Len(s) : s[i] = c

\* String.prototype.indexOf, for a one-character argument: the position of the
\* first occurrence counted from 1, 0 when there is none.
IndexOf(s, c) ==
  IF Includes(s, c)
    THEN CHOOSE i \in 1..Len(s) : s[i] = c /\ \A j \in 1..(i - 1) : s[j] # c
    ELSE 0

\* String.prototype.startsWith
StartsWith(s, p) == Len(s) >= Len(p) /\ SubSeq(s, 1, Len(p)) = p

\* String.prototype.substring(from), with positions counted from 1
From(s, i) == SubSeq(s, i, Len(s))

RECURSIVE Split(_, _)
\* String.prototype.split, for a one-character separator
Split(s, c) ==
  LET Cut(i) ==
        IF i = 0 THEN <<s>> ELSE <<SubSeq(s, 1, i - 1)>> \o Split(From(s, i + 1), c)
  IN Cut(IndexOf(s, c))

RECURSIVE Join(_, _)
\* Array.prototype.join
Join(parts, sep) ==
  IF Len(parts) = 0 THEN <<>>
  ELSE IF Len(parts) = 1 THEN parts[1]
  ELSE parts[1] \o sep \o Join(Tail(parts), sep)

\* The selectors that are never prefixed.
Html == <<"h", "t", "m", "l">>

Root == <<":", "r", "o", "o", "t">>

Body == <<"b", "o", "d", "y">>

Host == <<":", "h", "o", "s", "t">>

\* `[data-component-id="${scopeId}"]`: the brackets are characters; the
\* attribute name with the = sign, and the quoted id, are one token each.
ScopeSelector(scopeId) == <<"[", "data-component-id=", ToString(scopeId), "]">>

\* A fetched resource text is a sequence of chunks: markup, one
\* <style>...</style> block with its inner text (a sequence of characters), or
\* one <script> element.
MarkupChunk(m) == [t |-> "markup", s |-> <<m>>]

ScriptChunk(code) == [t |-> "script", s |-> <<code>>]

StyleChunk(css) == [t |-> "style", s |-> css]

\* .x{c:var(--c,#0)}
GoodCSS ==
  <<".", "x", "{", "c", ":", "v", "a", "r", "(", "-", "-", "c", ",", "#", "0", ")", "}">>

\* .x{  (an unmatched opening brace)
UnbalancedCSS == <<".", "x", "{">>

ResourceStyled == <<MarkupChunk("<nav>"), StyleChunk(GoodCSS)>>

ResourcePlain == <<MarkupChunk("<nav>")>>

ResourceBroken == <<MarkupChunk("<nav>"), StyleChunk(UnbalancedCSS)>>

\* <nav><style> </style>
ResourceEmptyStyle == <<MarkupChunk("<nav>"), StyleChunk(<<" ">>)>>

\* <nav><style>.x{c:var(--c,[i] a
\* b)}</style>: a fallback that has been prefixed and goes over two lines
ResourceUnrepaired ==
  <<MarkupChunk("<nav>"),
    StyleChunk(<<".", "x", "{", "c", ":", "v", "a", "r", "(", "-", "-", "c", ",", "[", "i", "]", " ",
                "a", "\n", "b", ")", "}">>)>>

\* <nav><script>init()</script>
ResourceScripted == <<MarkupChunk("<nav>"), ScriptChunk("init()")>>

----------------------------------------------------------------------------
(* fetchComponent: the extraction of the CSS from the fetched text *)

RECURSIVE StyleText(_)
\* css += match[1].trim() + "\n", for every <style> block in document order
StyleText(text) ==
  IF text = <<>> THEN <<>>
  ELSE (IF Head(text).t = "style" THEN Trim(Head(text).s) \o <<"\n">> ELSE <<>>)
       \o StyleText(Tail(text))

\* CSSParser.extractFromHTML
extractFromHTML(text) == Trim(StyleText(text))

\* CSSParser.removeFromHTML, and the fallback's html.replace
removeFromHTML(text) == SelectSeq(text, LAMBDA c : c.t # "style")

\* What fetchComponent returns for a successful response with body `text`.
fetchComponent(text) ==
  IF config.cssParser
    THEN LET css == extractFromHTML(text)
         IN [html |-> IF css # <<>> THEN removeFromHTML(text) ELSE text,
             css  |-> Trim(css)]
    ELSE [html |-> removeFromHTML(text), css |-> Trim(StyleText(text))]

NoData == [html |-> <<>>, css |-> <<>>]

----------------------------------------------------------------------------
(* CSSParser.validate *)

RECURSIVE BracesBalancedFrom(_, _, _, _, _)
BracesBalancedFrom(css, i, braces, inString, stringChar) ==
  IF i > Len(css) THEN braces = 0
  ELSE
    LET ch == css[i]
        quote == ch \in {"\"", "'"}
        closes == inString /\ stringChar = ch /\ (i = 1 \/ css[i - 1] # "\\")
        inS == IF quote THEN (IF ~inString THEN TRUE ELSE ~closes) ELSE inString
        sc == IF quote /\ ~inString THEN ch ELSE stringChar
        b == IF inS THEN braces
             ELSE IF ch = "{" THEN braces + 1
             ELSE IF ch = "}" THEN braces - 1
             ELSE braces
    IN IF b < 0 THEN FALSE ELSE BracesBalancedFrom(css, i + 1, b, inS, sc)

\* With a CSSStyleSheet the browser parses the text (replaceSync drops what it
\* cannot parse and does not throw); without one the braces are counted.
validate(css) ==
  IF config.cssom THEN TRUE ELSE BracesBalancedFrom(css, 1, 0, FALSE, "")

----------------------------------------------------------------------------
(* The repair of var() fallbacks that an earlier scoper broke *)

\* [a-zA-Z-]
NameChars ==
  {"a", "b", "c", "d", "e", "f", "g", "h", "i", "j", "k", "l", "m", "n", "o",
   "p", "q", "r", "s", "t", "u", "v", "w", "x", "y", "z",
   "A", "B", "C", "D", "E", "F", "G", "H", "I", "J", "K", "L", "M", "N", "O",
   "P", "Q", "R", "S", "T", "U", "V", "W", "X", "Y", "Z", "-"}

RECURSIVE RunEnd(_, _, _)
\* Where the longest run of characters of `set` that starts at position i
\* ends: i - 1 when the run is empty.  RunEndNot: of characters outside `set`.
RunEnd(s, i, set) ==
  IF i <= Len(s) /\ s[i] \in set THEN RunEnd(s, i + 1, set) ELSE i - 1

RECURSIVE RunEndNot(_, _, _)
RunEndNot(s, i, set) ==
  IF i <= Len(s) /\ s[i] \notin set THEN RunEndNot(s, i + 1, set) ELSE i - 1

\* The match of /var\((--[a-zA-Z-]+),\s*(\[[^\]]+\]\s*[^),]+)\)/ that starts
\* at position i, if there is one, read from left to right: the name, the
\* white space, the bracketed selector, the value.  Every quantifier of the
\* pattern is followed by a character outside its class, so the match is the
\* greedy one; \s*[^),]+ is one run of characters other than ) and , of length
\* one at least.
brokenVarAt(css, i) ==
  LET NoMatch == [ok |-> FALSE, last |-> 0, varName |-> <<>>, brokenValue |-> <<>>]
      Value(nameEnd, spaceEnd, valueEnd) ==
        IF valueEnd + 1 <= Len(css) /\ css[valueEnd + 1] = ")"
          THEN [ok |-> TRUE, last |-> valueEnd + 1,
                varName |-> SubSeq(css, i + 4, nameEnd),
                brokenValue |-> SubSeq(css, spaceEnd + 1, valueEnd)]
          ELSE NoMatch
      Selector(nameEnd, spaceEnd, selEnd) ==
        IF /\ selEnd >= spaceEnd + 2
           /\ selEnd + 1 <= Len(css) /\ css[selEnd + 1] = "]"
           /\ selEnd + 2 <= Len(css) /\ css[selEnd + 2] \notin {")", ","}
          THEN Value(nameEnd, spaceEnd, RunEndNot(css, selEnd + 2, {")", ","}))
          ELSE NoMatch
      Space(nameEnd, spaceEnd) ==
        IF spaceEnd + 1 <= Len(css) /\ css[spaceEnd + 1] = "["
          THEN Selector(nameEnd, spaceEnd, RunEndNot(css, spaceEnd + 2, {"]"}))
          ELSE NoMatch
      Name(nameEnd) ==
        IF nameEnd >= i + 6 /\ nameEnd + 1 <= Len(css) /\ css[nameEnd + 1] = ","
          THEN Space(nameEnd, RunEnd(css, nameEnd + 2, Whitespace))
          ELSE NoMatch
  IN IF i + 5 <= Len(css) /\ SubSeq(css, i, i + 5) = <<"v", "a", "r", "(", "-", "-">>
       THEN Name(RunEnd(css, i + 6, NameChars))
       ELSE NoMatch

\* CSSParser.needsFix
needsFix(css) == \E i \in 1..Len(css) : brokenVarAt(css, i).ok

\* The group of brokenValue.match(/\]\s*(.+)$/) for the ] at position p: the
\* text after the ] and the white space that follows it, which must be non-empty
\* and free of line breaks up to the end; \s* gives its last character back when
\* nothing else is left.  <<>> when there is no match at p.
valueAfter(brokenValue, p) ==
  LET Group(group) == IF Includes(group, "\n") THEN <<>> ELSE group
      After(spaceEnd) ==
        Group(From(brokenValue,
                   IF spaceEnd = Len(brokenValue) /\ spaceEnd > p THEN spaceEnd
                   ELSE spaceEnd + 1))
  IN After(RunEnd(brokenValue, p + 1, Whitespace))

\* cleanValue of fixBrokenCSS's callback: the group of the leftmost match,
\* brokenValue itself when no ] is followed by a match.
cleanValue(brokenValue) ==
  LET Clean(at) ==
        IF at = {} THEN brokenValue
        ELSE valueAfter(brokenValue, CHOOSE p \in at : \A q \in at : p <= q)
  IN Clean({p \in 1..Len(brokenValue) :
              brokenValue[p] = "]" /\ valueAfter(brokenValue, p) # <<>>})

RECURSIVE fixBrokenFrom(_, _)
\* css.replace with the g flag, from position i on: the matches from left to
\* right, none overlapping another.
fixBrokenFrom(css, i) ==
  LET Replaced(match) ==
        IF match.ok
          THEN <<"v", "a", "r", "(">> \o match.varName \o <<",", " ">>
               \o cleanValue(match.brokenValue) \o <<")">>
               \o fixBrokenFrom(css, match.last + 1)
          ELSE <<css[i]>> \o fixBrokenFrom(css, i + 1)
  IN IF i > Len(css) THEN <<>> ELSE Replaced(brokenVarAt(css, i))

\* CSSParser.fixBrokenCSS
fixBrokenCSS(css) == fixBrokenFrom(css, 1)

----------------------------------------------------------------------------
(* The line-based scopers used by the render pipeline *)

\* The callback of scopeSelectorsSafe's map: one selector of the list.
scopeSelectorSafe(selector, scopeSelector) ==
  LET Scoped(trimmed) ==
        IF StartsWith(trimmed, <<"-", "-">>) THEN trimmed
        ELSE IF StartsWith(trimmed, <<"@">>) THEN trimmed
        ELSE IF trimmed \in {Html, Root, Body} THEN trimmed
        ELSE IF StartsWith(trimmed, Host)
          THEN scopeSelector \o From(trimmed, Len(Host) + 1)
        ELSE scopeSelector \o <<" ">> \o trimmed
  IN Scoped(Trim(selector))

\* CSSParser.scopeSelectorsSafe
scopeSelectorsSafe(selectors, scopeSelector) ==
  LET Scoped(parts) ==
        Join([k \in 1..Len(parts) |-> scopeSelectorSafe(parts[k], scopeSelector)],
             <<",", " ">>)
  IN Scoped(Split(selectors, ","))

\* The body of scopeCSSSafe's loop: what one line adds to the result.  Only a
\* line with a { and no } is rewritten; every other branch of the loop, in a
\* rule or out of it, appends the line as it is.
scopeLineSafe(line, scopeSelector) ==
  LET Rule(trimmed, brace) ==
        scopeSelectorsSafe(Trim(SubSeq(trimmed, 1, brace - 1)), scopeSelector)
        \o <<" ", "{">> \o From(trimmed, brace + 1) \o <<"\n">>
      Line(trimmed) ==
        IF trimmed = <<>> THEN line \o <<"\n">>
        ELSE IF Includes(trimmed, "{") /\ ~Includes(trimmed, "}")
          THEN Rule(trimmed, IndexOf(trimmed, "{"))
        ELSE line \o <<"\n">>
  IN Line(Trim(line))

\* CSSParser.scopeCSSSafe
scopeCSSSafe(css, scopeSelector) ==
  LET Scoped(lines) ==
        Join([k \in 1..Len(lines) |-> scopeLineSafe(lines[k], scopeSelector)], <<>>)
  IN Scoped(Split(css, "\n"))

\* The callback of simpleScopeCSS's map: one selector of the list.
simpleScopeSelector(sel, scopeSelector) ==
  IF StartsWith(sel, Host) THEN scopeSelector \o From(sel, Len(Host) + 1)
  ELSE IF sel \in {Html, Root} \/ StartsWith(sel, <<"@">>) THEN sel
  ELSE scopeSelector \o <<" ">> \o sel

\* The body of simpleScopeCSS's loop (inVarFunction is never set).
simpleScopeLine(line, scopeSelector) ==
  LET Selectors(sels) ==
        Join([k \in 1..Len(sels) |-> simpleScopeSelector(Trim(sels[k]), scopeSelector)],
             <<",", " ">>)
      Rule(selectors, body) ==
        IF StartsWith(selectors, <<"-", "-">>) THEN line \o <<"\n">>
        ELSE Selectors(Split(selectors, ",")) \o <<" ", "{">> \o body \o <<"\n">>
      Line(parts) ==
        IF Includes(line, "{") /\ ~Includes(line, "}") /\ Len(parts) = 2
          THEN Rule(Trim(parts[1]), parts[2])
          ELSE line \o <<"\n">>
  IN Line(Split(line, "{"))

\* ComponentLoader.simpleScopeCSS
simpleScopeCSS(css, scopeId) ==
  LET Scoped(lines) ==
        Join([k \in 1..Len(lines) |->
                simpleScopeLine(lines[k], ScopeSelector(scopeId))], <<>>)
  IN Scoped(Split(css, "\n"))

----------------------------------------------------------------------------
(* CSSParser's rule scoper: parseRules, scopeRule, scopeSelectors *)

\* String.prototype.lastIndexOf, for a one-character argument: counted from 1,
\* 0 when there is none.
LastIndexOf(s, c) ==
  IF Includes(s, c)
    THEN CHOOSE i \in 1..Len(s) : s[i] = c /\ \A j \in (i + 1)..Len(s) : s[j] # c
    ELSE 0

\* A match of /^::?[a-zA-Z-]+(\([^)]*\))?$/: one or two colons, a name, and
\* possibly an argument in parentheses that ends the text.
IsPseudo(t) ==
  LET nameStart == IF Len(t) >= 2 /\ t[2] = ":" THEN 3 ELSE 2
      nameEnd == RunEnd(t, nameStart, NameChars)
  IN /\ Len(t) >= 1
     /\ t[1] = ":"
     /\ nameEnd >= nameStart
     /\ \/ nameEnd = Len(t)
        \/ /\ t[nameEnd + 1] = "("
           /\ IndexOf(From(t, nameEnd + 2), ")") = Len(t) - (nameEnd + 1)

\* CSSParser.handleHostSelector
handleHostSelector(selector, scopeSelector) ==
  LET rest == From(selector, Len(Host) + 1)
      close == IndexOf(rest, ")")
      className == SubSeq(rest, 2, close - 1)
      hostWithClass == /\ Len(rest) >= 3 /\ rest[1] = "(" /\ close >= 3
  IN IF selector = Host THEN scopeSelector
     ELSE IF hostWithClass /\ close = Len(rest) THEN scopeSelector \o className
     ELSE IF hostWithClass /\ IsPseudo(From(rest, close + 1))
       THEN scopeSelector \o className \o From(rest, close + 1)
     ELSE IF IsPseudo(rest) THEN scopeSelector \o rest
     ELSE scopeSelector \o rest

\* The callback of scopeSelectors' map: one selector of the list.
scopeOneSelector(selector, scopeSelector) ==
  LET trimmed == Trim(selector)
      baseEnd == RunEnd(trimmed, 1, NameChars)
      base == SubSeq(trimmed, 1, baseEnd)
      pseudo == From(trimmed, baseEnd + 1)
  IN IF StartsWith(trimmed, <<"@">>) THEN trimmed
     ELSE IF trimmed \in {Html, Root, Body} THEN trimmed
     ELSE IF StartsWith(trimmed, Host) THEN handleHostSelector(trimmed, scopeSelector)
     ELSE IF IsPseudo(pseudo)
       THEN IF base = <<"h", "o", "s", "t">> \/ base = <<>>
              THEN scopeSelector \o pseudo
              ELSE scopeSelector \o <<" ">> \o base \o pseudo
     ELSE IF /\ StartsWith(trimmed, <<"-", "-">>)
             /\ Len(trimmed) >= 3
             /\ RunEnd(trimmed, 3, NameChars) = Len(trimmed)
       THEN trimmed
     ELSE scopeSelector \o <<" ">> \o trimmed

\* CSSParser.scopeSelectors
scopeSelectors(selectors, scopeSelector) ==
  LET parts == Split(selectors, ",")
  IN Join([k \in 1..Len(parts) |-> scopeOneSelector(parts[k], scopeSelector)],
          <<",", " ">>)

\* The state of parseRules' loop before its first character.
ParseStart ==
  [rules |-> <<>>, currentRule |-> <<>>, depth |-> 0, inString |-> FALSE,
   stringChar |-> "", inComment |-> FALSE, inVarFunction |-> FALSE,
   parenDepth |-> 0]

\* parseRules' loop, "Handle strings": the character at i opens or closes a
\* string.
parseString(css, i, st) ==
  IF ~st.inComment /\ css[i] \in {"\"", "'"}
    THEN IF ~st.inString
           THEN [st EXCEPT !.inString = TRUE, !.stringChar = css[i]]
         ELSE IF st.stringChar = css[i] /\ css[i - 1] # "\\"
           THEN [st EXCEPT !.inString = FALSE]
         ELSE st
    ELSE st

\* parseRules' loop, from "Track var() functions" to its end: the character
\* at i is added to the current rule.
parseChar(css, i, st) ==
  LET char == css[i]
      opens == /\ ~st.inString /\ char = "v" /\ i + 3 <= Len(css)
               /\ SubSeq(css, i, i + 3) = <<"v", "a", "r", "(">>
      inVar == st.inVarFunction \/ opens
      parens == IF ~st.inString /\ inVar
                  THEN IF char = "(" THEN st.parenDepth + 1
                       ELSE IF char = ")" THEN st.parenDepth - 1
                       ELSE st.parenDepth
                  ELSE st.parenDepth
      closed == ~st.inString /\ inVar /\ char = ")" /\ parens = 0
      inVarNow == inVar /\ ~closed
      counted == ~st.inString /\ ~inVarNow
      depth == IF char = "{" /\ counted THEN st.depth + 1
               ELSE IF char = "}" /\ counted THEN st.depth - 1
               ELSE st.depth
      ends == char = "}" /\ counted /\ depth = 0
      rule == Append(st.currentRule, char)
  IN [st EXCEPT !.inVarFunction = inVarNow,
                !.parenDepth = parens,
                !.depth = depth,
                !.rules = IF ends THEN Append(@, Trim(rule)) ELSE @,
                !.currentRule = IF ends THEN <<>> ELSE rule]

RECURSIVE parseFrom(_, _, _)
\* parseRules' loop from position i on, and the push of what remains.
parseFrom(css, i, st0) ==
  IF i > Len(css)
    THEN IF Trim(st0.currentRule) # <<>>
           THEN Append(st0.rules, Trim(st0.currentRule))
           ELSE st0.rules
  ELSE
    LET st == parseString(css, i, st0)
        char == css[i]
        nextChar == IF i + 1 <= Len(css) THEN css[i + 1] ELSE ""
        lineEnd == IndexOf(From(css, i), "\n")
    IN IF ~st.inString /\ char = "/" /\ nextChar = "*"
         THEN parseFrom(css, i + 2, [st EXCEPT !.inComment = TRUE])
       ELSE IF st.inComment /\ char = "*" /\ nextChar = "/"
         THEN parseFrom(css, i + 2, [st EXCEPT !.inComment = FALSE])
       ELSE IF st.inComment THEN parseFrom(css, i + 1, st)
       ELSE IF ~st.inString /\ char = "/" /\ nextChar = "/"
         THEN parseFrom(css, IF lineEnd = 0 THEN Len(css) + 1 ELSE i + lineEnd, st)
       ELSE parseFrom(css, i + 1, parseChar(css, i, st))

\* CSSParser.parseRules
parseRules(css) == parseFrom(css, 1, ParseStart)

\* The at-rules whose text is returned as it is.
nonScopedAtRules ==
  {<<"@", "k", "e", "y", "f", "r", "a", "m", "e", "s">>,
   <<"@", "-", "w", "e", "b", "k", "i", "t", "-", "k", "e", "y", "f", "r", "a", "m", "e", "s">>,
   <<"@", "-", "m", "o", "z", "-", "k", "e", "y", "f", "r", "a", "m", "e", "s">>,
   <<"@", "f", "o", "n", "t", "-", "f", "a", "c", "e">>,
   <<"@", "i", "m", "p", "o", "r", "t">>,
   <<"@", "c", "h", "a", "r", "s", "e", "t">>,
   <<"@", "n", "a", "m", "e", "s", "p", "a", "c", "e">>}

\* The at-rules whose inner rules are scoped.
scopedAtRules ==
  {<<"@", "m", "e", "d", "i", "a">>,
   <<"@", "s", "u", "p", "p", "o", "r", "t", "s">>,
   <<"@", "c", "o", "n", "t", "a", "i", "n", "e", "r">>,
   <<"@", "l", "a", "y", "e", "r">>}

RECURSIVE scopeRule(_, _)
RECURSIVE scopeWithManualParser(_, _)

\* CSSParser.scopeAtRule
scopeAtRule(rule, beforeBrace, afterBrace, scopeSelector) ==
  LET innerEnd == LastIndexOf(afterBrace, "}")
      innerCSS == SubSeq(afterBrace, 2, innerEnd - 1)
  IN IF \E nonScoped \in nonScopedAtRules : StartsWith(beforeBrace, nonScoped)
       THEN rule
     ELSE IF \E scoped \in scopedAtRules : StartsWith(beforeBrace, scoped)
       THEN IF innerEnd <= 2 THEN rule
            ELSE beforeBrace \o <<" ", "{">>
                 \o scopeWithManualParser(innerCSS, scopeSelector) \o <<"}">>
     ELSE rule

\* scopeRule as it was before its fix: the whole text of the rule is cut at
\* its commas and each piece is prefixed.
scopeRuleWhole(rule, scopeSelector) == scopeSelectors(rule, scopeSelector)

\* CSSParser.scopeRule
scopeRule(rule, scopeSelector) ==
  LET firstBrace == IndexOf(rule, "{")
      beforeBrace == Trim(SubSeq(rule, 1, firstBrace - 1))
      afterBrace == From(rule, firstBrace)
  IN IF firstBrace = 0 THEN rule
     ELSE IF StartsWith(beforeBrace, <<"@">>)
       THEN scopeAtRule(rule, beforeBrace, afterBrace, scopeSelector)
     ELSE scopeSelectors(beforeBrace, scopeSelector) \o afterBrace

\* CSSParser.scopeWithManualParser
scopeWithManualParser(css, scopeSelector) ==
  LET rules == parseRules(css)
  IN Join([k \in 1..Len(rules) |-> scopeRule(rules[k], scopeSelector) \o <<"\n">>],
          <<>>)

----------------------------------------------------------------------------
(* The program state as one record, so that a handler's calls compose *)

Cur ==
  [dataset |-> dataset, content |-> content, shadow |-> shadow,
   components |-> components, styles |-> styles, head |-> head,
   loadingStates |-> loadingStates, loads |-> loads, initCall |-> initCall,
   reloads |-> reloads, reloadAlls |-> reloadAlls]

Becomes(s) ==
  /\ dataset' = s.dataset
  /\ content' = s.content
  /\ shadow' = s.shadow
  /\ components' = s.components
  /\ styles' = s.styles
  /\ head' = s.head
  /\ loadingStates' = s.loadingStates
  /\ loads' = s.loads
  /\ initCall' = s.initCall
  /\ reloads' = s.reloads
  /\ reloadAlls' = s.reloadAlls
  /\ UNCHANGED <<placeholders, config, network, scoping>>

FreshDataset ==
  [loading |-> "absent", loaded |-> "absent", error |-> "absent",
   errorRendered |-> FALSE, errorMessage |-> "absent",
   loadId |-> 0, componentId |-> 0]

\* innerHTML of a placeholder: what the page author put there, nothing, the
\* wrapper of a render, or the error panel. ran counts how many times the
\* <script> elements of this content have been replaced by fresh ones.
OriginalContent ==
  [kind |-> "original", scope |-> 0, html |-> <<>>, message |-> "absent", ran |-> 0]

EmptyContent ==
  [kind |-> "empty", scope |-> 0, html |-> <<>>, message |-> "absent", ran |-> 0]

WrapperContent(scopeId, html) ==
  [kind |-> "wrapper", scope |-> scopeId, html |-> html, message |-> "absent",
   ran |-> 0]

ErrorPanel(message) ==
  [kind |-> "error", scope |-> 0, html |-> <<>>, message |-> message, ran |-> 0]

NoShadow == [attached |-> FALSE, css |-> <<>>, html |-> <<>>, ran |-> 0]

----------------------------------------------------------------------------
(* Styles in the document head *)

\* cleanupStyles with the removal of the <style> elements from the document
\* left out: only the registry entry is deleted.
cleanupStylesLeavingHead(s, scopeId) ==
  IF scopeId \in DOMAIN s.styles
    THEN [s EXCEPT !.styles = MapDelete(@, scopeId)]
    ELSE s

\* cleanupStyles(scopeId)
cleanupStyles(s, scopeId) ==
  IF scopeId \in DOMAIN s.styles
    THEN [s EXCEPT !.head = @ \ {s.styles[scopeId][k] : k \in 1..Len(s.styles[scopeId])},
                   !.styles = MapDelete(@, scopeId)]
    ELSE s

\* injectStyles(css, scopeId)
injectStyles(s, css, scopeId) ==
  IF Trim(css) = <<>> THEN s
  ELSE
    LET style == [scope |-> scopeId, css |-> css]
        had == IF scopeId \in DOMAIN s.styles THEN s.styles[scopeId] ELSE <<>>
    IN [s EXCEPT !.head = @ \cup {style},
                 !.styles = MapSet(@, scopeId, Append(had, style))]

\* injectScopedStyles(css, scopeId): [st, threw]
injectScopedStyles(s, css, scopeId) ==
  LET Fixed(text) == IF needsFix(text) THEN fixBrokenCSS(text) ELSE text
      scopedCSS(fixed) ==
        IF config.cssParser
          THEN Fixed(scopeCSSSafe(fixed, ScopeSelector(scopeId)))
          ELSE simpleScopeCSS(fixed, scopeId)
      Checked(fixed) ==
        IF /\ config.validateCSS
           /\ config.cssParser
           /\ ~validate(fixed)
           /\ config.errorHandling = "strict"
          THEN [st |-> s, threw |-> TRUE]
          ELSE [st |-> injectStyles(s, scopedCSS(fixed), scopeId), threw |-> FALSE]
  IN IF Trim(css) = <<>> THEN [st |-> s, threw |-> FALSE]
     ELSE Checked(IF config.cssParser THEN Fixed(css) ELSE css)

\* The styles step shared by renderWithSemanticWrapper and renderWithSimpleWrapper.
InjectComponentStyles(s, css, scopeId) ==
  IF css # <<>> /\ config.scopeCSS THEN injectScopedStyles(s, css, scopeId)
  ELSE IF css # <<>> THEN [st |-> injectStyles(s, css, scopeId), threw |-> FALSE]
  ELSE [st |-> s, threw |-> FALSE]

----------------------------------------------------------------------------
(* Rendering *)

\* renderWithShadowDOM without `shadow.innerHTML = ""`: the style node of the
\* previous render stays when the new render brings none.
renderWithShadowDOMKeeping(s, e, html, css) ==
  [s EXCEPT !.shadow[e] = [attached |-> TRUE,
                           css |-> IF css = <<>> THEN s.shadow[e].css ELSE css,
                           html |-> html, ran |-> 0]]

\* renderWithShadowDOM
renderWithShadowDOM(s, e, html, css) ==
  [s EXCEPT !.shadow[e] = [attached |-> TRUE, css |-> css, html |-> html, ran |-> 0]]

\* renderWithScopedStyles: [st, threw]
renderWithScopedStyles(s, e, html, css, scopeId) ==
  LET Wrapped(r) ==
        IF r.threw THEN r
        ELSE [st |-> [r.st EXCEPT !.content[e] = WrapperContent(scopeId, html)],
              threw |-> FALSE]
  IN Wrapped(InjectComponentStyles(cleanupStyles(s, scopeId), css, scopeId))

\* executeComponentScripts(element): every <script> that
\* element.querySelectorAll finds, which are the placeholder's own descendants
\* and none of its shadow tree, is replaced by a fresh copy.
executeComponentScripts(s, e) ==
  IF \E i \in 1..Len(s.content[e].html) : s.content[e].html[i].t = "script"
    THEN [s EXCEPT !.content[e].ran = @ + 1]
    ELSE s

\* renderComponent: [st, threw]
renderComponent(s, e, data, scopeId) ==
  LET s1 == [s EXCEPT !.dataset[e].componentId = scopeId]
      s2 == IF s1.dataset[e].errorRendered
              THEN [s1 EXCEPT !.content[e] = EmptyContent,
                              !.dataset[e].errorRendered = FALSE]
              ELSE s1
      Executed(r) ==
        IF r.threw THEN r
        ELSE [st |-> executeComponentScripts(r.st, e), threw |-> FALSE]
  IN Executed(IF config.shadowDOM
                THEN [st |-> renderWithShadowDOM(s2, e, data.html, data.css),
                      threw |-> FALSE]
                ELSE renderWithScopedStyles(s2, e, data.html, data.css, scopeId))

----------------------------------------------------------------------------
(* loadComponent *)

NextLoadId(s) == Cardinality(DOMAIN s.loads) + 1

\* The calls of loadComponent for placeholder e that have not returned.
InFlight(s, e) == {a \in DOMAIN s.loads : s.loads[a].element = e /\ s.loads[a].pc # "done"}

\* The record of a call of loadComponent.  pc: fetching (waiting for fetch),
\* backoff (waiting for delay), done.  fetches, failure, waits, cached and
\* raced are history: the fetches issued, what the latest failed fetch threw,
\* the delays waited for in order, whether the cache served the call, and
\* whether another call for the same placeholder was in flight at some time
\* during this one.  dispatched: the events the call has dispatched on its
\* placeholder, with the details this model follows.  stored: the cache entry
\* of the call's component is the record this call has put there.
NewLoad(s, name, e) ==
  [name |-> name, element |-> e, pc |-> "fetching", i |-> 0,
   lastError |-> "none", fetches |-> 0, failure |-> "none", delay |-> 0,
   waits |-> <<>>,
   cached |-> FALSE, err |-> "none", cause |-> "none",
   outcome |-> "pending", raced |-> InFlight(s, e) # {}, dispatched |-> <<>>,
   stored |-> FALSE]

\* History: call a has put its record in the cache under its component's name.
Stored(s, a) ==
  [s EXCEPT !.loads = [b \in DOMAIN s.loads |->
                         IF s.loads[b].name = s.loads[a].name
                           THEN [s.loads[b] EXCEPT !.stored = (b = a)]
                           ELSE s.loads[b]]]

\* History: the cache entries of these components are gone.
Evicted(s, names) ==
  [s EXCEPT !.loads = [b \in DOMAIN s.loads |->
                         IF s.loads[b].name \in names
                           THEN [s.loads[b] EXCEPT !.stored = FALSE]
                           ELSE s.loads[b]]]

\* The call has returned: its promise is settled and its locals are gone.
Returned(l, outcome) ==
  [l EXCEPT !.pc = "done", !.outcome = outcome, !.i = 0, !.lastError = "none",
            !.delay = 0]

\* loadSucceeded with the removal of the call's entry from loadingStates left
\* out.
loadSucceededKeepingState(s, a) ==
  LET e == s.loads[a].element
  IN [s EXCEPT !.dataset[e].loaded = "true",
               !.dataset[e].loading = "false",
               !.dataset[e].error = "absent",
               !.dataset[e].loadId = 0,
               !.loads[a] =
                  [Returned(@, "fulfilled") EXCEPT !.dispatched =
                     <<[type |-> "component:loaded",
                        fromCache |-> config.cache /\ s.loads[a].name \in DOMAIN s.components]>>]]

\* loadComponent after the render: lines 139-167.
loadSucceeded(s, a) ==
  LET e == s.loads[a].element
  IN [s EXCEPT !.dataset[e].loaded = "true",
               !.dataset[e].loading = "false",
               !.dataset[e].error = "absent",
               !.dataset[e].loadId = 0,
               !.loadingStates = MapDelete(@, a),
               !.loads[a] =
                  [Returned(@, "fulfilled") EXCEPT !.dispatched =
                     <<[type |-> "component:loaded",
                        fromCache |-> config.cache /\ s.loads[a].name \in DOMAIN s.components]>>]]

\* loadFailed with the cache entry of the failed component dropped.
loadFailedEvicting(s, a, error, cause) ==
  LET e == s.loads[a].element
      s1 == [s EXCEPT !.dataset[e].loading = "false",
                      !.dataset[e].loaded = "false",
                      !.dataset[e].error = "true",
                      !.dataset[e].errorMessage = error,
                      !.components = MapDelete(@, s.loads[a].name),
                      !.loadingStates =
                         IF a \in DOMAIN @ THEN [@ EXCEPT ![a].error = error] ELSE @,
                      !.loads[a].err = error,
                      !.loads[a].cause = cause]
  IN IF config.errorHandling = "graceful"
       THEN LET s2 == IF ~s1.dataset[e].errorRendered
                        THEN [s1 EXCEPT !.content[e] = ErrorPanel(error),
                                        !.dataset[e].errorRendered = TRUE]
                        ELSE s1
            IN [s2 EXCEPT !.dataset[e].loadId = 0,
                          !.loads[a] = Returned(@, "fulfilled")]
       ELSE [s1 EXCEPT !.loads[a] = Returned(@, "rejected")]

\* loadFailed with the strict policy's throw ahead of the update of the markers.
loadFailedThrowingFirst(s, a, error, cause) ==
  LET e == s.loads[a].element
      s1 == [s EXCEPT !.dataset[e].loading = "false",
                      !.dataset[e].loaded = "false",
                      !.dataset[e].error = "true",
                      !.dataset[e].errorMessage = error,
                      !.loadingStates =
                         IF a \in DOMAIN @ THEN [@ EXCEPT ![a].error = error] ELSE @,
                      !.loads[a].err = error,
                      !.loads[a].cause = cause]
  IN IF config.errorHandling = "graceful"
       THEN LET s2 == IF ~s1.dataset[e].errorRendered
                        THEN [s1 EXCEPT !.content[e] = ErrorPanel(error),
                                        !.dataset[e].errorRendered = TRUE]
                        ELSE s1
            IN [s2 EXCEPT !.dataset[e].loadId = 0,
                          !.loads[a] = Returned(@, "fulfilled")]
       ELSE [s EXCEPT !.loads[a].err = error,
                      !.loads[a].cause = cause,
                      !.loads[a] = Returned(@, "rejected")]

\* loadComponent's catch block: lines 168-201.
loadFailed(s, a, error, cause) ==
  LET e == s.loads[a].element
      s1 == [s EXCEPT !.dataset[e].loading = "false",
                      !.dataset[e].loaded = "false",
                      !.dataset[e].error = "true",
                      !.dataset[e].errorMessage = error,
                      !.loadingStates =
                         IF a \in DOMAIN @ THEN [@ EXCEPT ![a].error = error] ELSE @,
                      !.loads[a].err = error,
                      !.loads[a].cause = cause]
  IN IF config.errorHandling = "graceful"
       THEN LET s2 == IF ~s1.dataset[e].errorRendered
                        THEN [s1 EXCEPT !.content[e] = ErrorPanel(error),
                                        !.dataset[e].errorRendered = TRUE]
                        ELSE s1
            IN [s2 EXCEPT !.dataset[e].loadId = 0,
                          !.loads[a] = Returned(@, "fulfilled")]
       ELSE [s1 EXCEPT !.loads[a] = Returned(@, "rejected")]

\* loadComponent from the render on: lines 131-201.
renderAndFinish(s, a, data) ==
  LET Finished(r) ==
        IF r.threw THEN loadFailed(r.st, a, InvalidCSSError, "render")
        ELSE loadSucceeded(r.st, a)
  IN Finished(renderComponent(s, s.loads[a].element, data, a))

\* loadComponent(name, element), to its first wait for the network (or to its
\* end, when the cache serves it): lines 89-137.
loadComponent(s, name, e) ==
  LET id == NextLoadId(s)
      l0 == NewLoad(s, name, e)
      hit == config.cache /\ name \in DOMAIN s.components
      s1 == [s EXCEPT !.dataset[e].loading = "true",
                      !.dataset[e].loadId = id,
                      !.loadingStates = MapSet(@, id, [name |-> name, element |-> e, error |-> "none"]),
                      !.loads = MapSet([a \in DOMAIN s.loads |->
                                          IF a \in InFlight(s, e)
                                            THEN [s.loads[a] EXCEPT !.raced = TRUE]
                                            ELSE s.loads[a]],
                                       id,
                                       IF hit THEN [l0 EXCEPT !.cached = TRUE]
                                              ELSE [l0 EXCEPT !.fetches = 1])]
  IN IF hit THEN renderAndFinish(s1, id, s.components[name]) ELSE s1

\* fetchFailed with a loop that gives up one fetch early.
fetchFailedOneEarly(s, a, error) ==
  LET l == s.loads[a]
      l1 == [l EXCEPT !.lastError = error, !.failure = error]
      s1 == [s EXCEPT !.loads[a] = l1]
  IN IF l.i + 1 < config.retryCount
       THEN [s1 EXCEPT !.loads[a].pc = "backoff",
                       !.loads[a].delay = retryDelay * (l.i + 1),
                       !.loads[a].waits = Append(@, retryDelay * (l.i + 1))]
       ELSE loadFailed(s1, a, l1.lastError, "fetch")

\* fetchFailed with lastError set by the first failure only.
fetchFailedFirstError(s, a, error) ==
  LET l == s.loads[a]
      l1 == [l EXCEPT !.lastError = IF @ = "none" THEN error ELSE @,
                      !.failure = error]
      s1 == [s EXCEPT !.loads[a] = l1]
  IN IF l.i < config.retryCount
       THEN [s1 EXCEPT !.loads[a].pc = "backoff",
                       !.loads[a].delay = retryDelay * (l.i + 1),
                       !.loads[a].waits = Append(@, retryDelay * (l.i + 1))]
       ELSE loadFailed(s1, a, l1.lastError, "fetch")

\* fetchFailed with the failed response put in the cache.
fetchFailedCaching(s, a, error) ==
  LET l == s.loads[a]
      l1 == [l EXCEPT !.lastError = error, !.failure = error]
      s1 == [s EXCEPT !.loads[a] = l1,
                      !.components = IF config.cache THEN MapSet(@, l.name, NoData) ELSE @]
  IN IF l.i < config.retryCount
       THEN [s1 EXCEPT !.loads[a].pc = "backoff",
                       !.loads[a].delay = retryDelay * (l.i + 1),
                       !.loads[a].waits = Append(@, retryDelay * (l.i + 1))]
       ELSE loadFailed(s1, a, l1.lastError, "fetch")

\* fetchFailed with the same delay before every retry.
fetchFailedConstantDelay(s, a, error) ==
  LET l == s.loads[a]
      l1 == [l EXCEPT !.lastError = error, !.failure = error]
      s1 == [s EXCEPT !.loads[a] = l1]
  IN IF l.i < config.retryCount
       THEN [s1 EXCEPT !.loads[a].pc = "backoff",
                       !.loads[a].delay = retryDelay,
                       !.loads[a].waits = Append(@, retryDelay)]
       ELSE loadFailed(s1, a, l1.lastError, "fetch")

\* fetchComponentWithRetry, the catch of one failed fetch (lines 211-227), and
\* loadComponent's catch block when that was the last one.
fetchFailed(s, a, error) ==
  LET l == s.loads[a]
      l1 == [l EXCEPT !.lastError = error, !.failure = error]
      s1 == [s EXCEPT !.loads[a] = l1]
  IN IF l.i < config.retryCount
       THEN [s1 EXCEPT !.loads[a].pc = "backoff",
                       !.loads[a].delay = retryDelay * (l.i + 1),
                       !.loads[a].waits = Append(@, retryDelay * (l.i + 1))]
       ELSE loadFailed(s1, a, l1.lastError, "fetch")

\* fetchComponentWithRetry, after the delay: the next iteration's fetch.
backoffElapsed(s, a) ==
  [s EXCEPT !.loads[a].pc = "fetching",
            !.loads[a].i = @ + 1,
            !.loads[a].delay = 0,
            !.loads[a].fetches = @ + 1]

\* A successful response with body `text`: fetchComponent returns, and
\* loadComponent goes on to cache and render: lines 125-167.
fetchSucceeded(s, a, text) ==
  LET data == fetchComponent(text)
      s1 == IF config.cache
              THEN Stored([s EXCEPT !.components = MapSet(@, s.loads[a].name, data)], a)
              ELSE s
  IN renderAndFinish(s1, a, data)

----------------------------------------------------------------------------
(* Promises: the calls that wait for loads *)

\* Promise.all over promises with these states.
promiseAll(outcomes) ==
  IF "rejected" \in outcomes THEN "rejected"
  ELSE IF "pending" \in outcomes THEN "pending"
  ELSE "fulfilled"

\* Promise.allSettled over promises with these states.
allSettled(outcomes) == IF "pending" \in outcomes THEN "pending" ELSE "fulfilled"

Outcomes(s, ids) == {s.loads[a].outcome : a \in ids}

\* The state of the promise init waits for at line 80.
InitJoin(s) ==
  allSettled({allSettled(Outcomes(s, s.initCall.batches[k])) :
                k \in 1..Len(s.initCall.batches)})

\* initResumed without the wait for the batches.
initResumedEarly(s) ==
  IF s.initCall.pc = "join"
    THEN [s EXCEPT !.initCall.pc = "done",
                   !.initCall.outcome = "fulfilled",
                   !.initCall.dispatched = @ + 1]
    ELSE s

\* init after line 80, once its promise is settled: lines 80-86.
initResumed(s) ==
  IF s.initCall.pc = "join" /\ InitJoin(s) # "pending"
    THEN [s EXCEPT !.initCall.pc = "done",
                   !.initCall.outcome = InitJoin(s),
                   !.initCall.dispatched = IF InitJoin(s) = "fulfilled" THEN @ + 1 ELSE @]
    ELSE s

\* reload after line 914, once its promise is settled: it returns instances.length.
reloadsResumed(s) ==
  [s EXCEPT !.reloads =
     [k \in DOMAIN s.reloads |->
        IF s.reloads[k].pc = "wait" /\ allSettled(Outcomes(s, s.reloads[k].loads)) # "pending"
          THEN [s.reloads[k] EXCEPT !.pc = "done", !.result = s.reloads[k].n]
          ELSE s.reloads[k]]]

\* reloadAll after line 946, once every reload has returned.
reloadAllsResumed(s) ==
  [s EXCEPT !.reloadAlls =
     [k \in DOMAIN s.reloadAlls |->
        IF \A r \in s.reloadAlls[k].reloads : s.reloads[r].pc = "done"
          THEN [s.reloadAlls[k] EXCEPT !.pc = "done"]
          ELSE s.reloadAlls[k]]]

\* The continuations that run once loads have settled.
Resumed(s) == reloadAllsResumed(reloadsResumed(initResumed(s)))

----------------------------------------------------------------------------
(* init *)

Elements == 1..Len(placeholders)

\* Array.from(components).slice(i, i + batchSize), i counted from 0
BatchAt(i) == [k \in 1..(IF i + batchSize <= Len(placeholders)
                           THEN batchSize
                           ELSE Len(placeholders) - i) |-> i + k]

RECURSIVE StartBatch(_, _, _)
\* batch.map(...): lines 56-68; ids are the loads started
StartBatch(s, es, ids) ==
  IF es = <<>> THEN [st |-> s, ids |-> ids]
  ELSE LET e == Head(es)
       IN IF s.dataset[e].loaded = "true" \/ s.dataset[e].loading = "true"
            THEN StartBatch(s, Tail(es), ids)
            ELSE StartBatch(loadComponent(s, placeholders[e].name, e), Tail(es),
                            ids \cup {NextLoadId(s)})

\* One iteration of init's loop: lines 52-76.
initBatch(s, i) ==
  LET r == StartBatch(s, BatchAt(i), {})
  IN [r.st EXCEPT !.initCall.pc = IF i + batchSize < Len(placeholders) THEN "delay" ELSE "join",
                  !.initCall.i = i + batchSize,
                  !.initCall.batches = Append(@, r.ids)]

\* A public operation is called.
Called == calls > 0 /\ calls' = calls - 1

\* init(), to its first wait or to its early return: lines 28-76.
init(s) ==
  IF ~config.autoInit \/ Len(placeholders) = 0
    THEN [s EXCEPT !.initCall.pc = "done", !.initCall.outcome = "fulfilled"]
    ELSE initBatch(s, 0)

\* init() is called, once, when the document is ready (lines 1059-1067).
InitCall ==
  /\ initCall.pc = "idle"
  /\ Called
  /\ Becomes(Resumed(init(Cur)))

\* The delay between two batches has elapsed: the next batch is started.
InitDelayElapsed ==
  /\ initCall.pc = "delay"
  /\ Becomes(Resumed(initBatch(Cur, initCall.i)))
  /\ UNCHANGED calls

----------------------------------------------------------------------------
(* The steps of a load *)

Fetching == {a \in DOMAIN loads : loads[a].pc = "fetching"}

\* The fetch of load a fails (a response that is not ok, or a network error).
FetchFails(a) ==
  /\ a \in Fetching
  /\ \E error \in network.errors : Becomes(Resumed(fetchFailed(Cur, a, error)))
  /\ UNCHANGED calls

\* The fetch of load a succeeds.
FetchSucceeds(a) ==
  /\ a \in Fetching
  /\ \E text \in network.texts : Becomes(Resumed(fetchSucceeded(Cur, a, text)))
  /\ UNCHANGED calls

\* The delay before the next fetch of load a has elapsed.
BackoffElapses(a) ==
  /\ a \in DOMAIN loads
  /\ loads[a].pc = "backoff"
  /\ Becomes(backoffElapsed(Cur, a))
  /\ UNCHANGED calls

----------------------------------------------------------------------------
(* reload, reloadAll *)

RECURSIVE InstancesFrom(_, _)
\* document.querySelectorAll(`[data-component="${name}"]`), from element k on
InstancesFrom(name, k) ==
  IF k > Len(placeholders) THEN <<>>
  ELSE (IF placeholders[k].name = name THEN <<k>> ELSE <<>>) \o InstancesFrom(name, k + 1)

Instances(name) == InstancesFrom(name, 1)

RECURSIVE ReloadInstances(_, _, _, _)
\* The loop of reload: lines 898-912.
ReloadInstances(s, name, es, ids) ==
  IF es = <<>> THEN [st |-> s, ids |-> ids]
  ELSE LET e == Head(es)
           s1 == [s EXCEPT !.dataset[e].loaded = "absent",
                           !.dataset[e].loading = "absent",
                           !.dataset[e].error = "absent",
                           !.dataset[e].errorRendered = FALSE,
                           !.dataset[e].errorMessage = "absent"]
           s2 == IF s1.dataset[e].componentId # 0
                   THEN cleanupStyles(s1, s1.dataset[e].componentId)
                   ELSE s1
       IN ReloadInstances(loadComponent(s2, name, e), name, Tail(es),
                          ids \cup {NextLoadId(s2)})

\* reload without the eviction of the cache entry.
reloadKeepingCache(s, name) ==
  LET instances == Instances(name)
      r == ReloadInstances(s, name, instances, {})
  IN IF instances = <<>>
       THEN [s EXCEPT !.reloads =
               Append(@, [name |-> name, loads |-> {}, n |-> 0, pc |-> "done", result |-> 0])]
       ELSE [r.st EXCEPT !.reloads =
               Append(@, [name |-> name, loads |-> r.ids, n |-> Len(instances),
                          pc |-> "wait", result |-> 0 - 1])]

\* reload(name), to its wait at line 914 (or to its return of 0).
reload(s, name) ==
  LET s1 == Evicted([s EXCEPT !.components = MapDelete(@, name)], {name})
      instances == Instances(name)
      r == ReloadInstances(s1, name, instances, {})
  IN IF instances = <<>>
       THEN [s1 EXCEPT !.reloads =
               Append(@, [name |-> name, loads |-> {}, n |-> 0, pc |-> "done", result |-> 0])]
       ELSE [r.st EXCEPT !.reloads =
               Append(@, [name |-> name, loads |-> r.ids, n |-> Len(instances),
                          pc |-> "wait", result |-> 0 - 1])]

Names == {"header", "footer"}

ReloadCall(name) ==
  /\ Called
  /\ Becomes(Resumed(reload(Cur, name)))

RECURSIVE DistinctNamesFrom(_, _)
\* The names of the document's placeholders, each once, in document order.
DistinctNamesFrom(k, seen) ==
  IF k > Len(placeholders) THEN <<>>
  ELSE IF placeholders[k].name \in seen THEN DistinctNamesFrom(k + 1, seen)
  ELSE <<placeholders[k].name>> \o DistinctNamesFrom(k + 1, seen \cup {placeholders[k].name})

RECURSIVE ReloadEach(_, _)
\* Array.from(components).map((name) => reload(name))
ReloadEach(s, names) ==
  IF names = <<>> THEN s ELSE ReloadEach(reload(s, Head(names)), Tail(names))

\* reloadAll(), to its wait: lines 927-946.
reloadAll(s) ==
  LET r == ReloadEach(s, DistinctNamesFrom(1, {}))
  IN [r EXCEPT !.reloadAlls =
        Append(@, [reloads |-> (Len(s.reloads) + 1)..Len(r.reloads), pc |-> "wait"])]

ReloadAllCall ==
  /\ Called
  /\ Becomes(Resumed(reloadAll(Cur)))

----------------------------------------------------------------------------
(* Other public operations *)

\* A caller's loadComponent(name, element) for a placeholder of the document.
LoadComponentCall(e) ==
  /\ e \in Elements
  /\ Called
  /\ Becomes(Resumed(loadComponent(Cur, placeholders[e].name, e)))

\* retryComponent(button): lines 805-821
retryComponent(s, e) ==
  LET s1 == [s EXCEPT !.dataset[e].error = "absent",
                      !.dataset[e].errorRendered = FALSE,
                      !.dataset[e].errorMessage = "absent",
                      !.content[e] = EmptyContent]
  IN loadComponent(s1, placeholders[e].name, e)

\* A click on the Retry button of the error panel of placeholder e.
RetryClick(e) ==
  /\ e \in Elements
  /\ content[e].kind = "error"
  /\ Called
  /\ Becomes(Resumed(retryComponent(Cur, e)))

\* getStatus with the `components.has(name)` test left out: every placeholder
\* is counted.
getStatusEveryPlaceholder(s) ==
  [total   |-> Len(placeholders),
   loaded  |-> Cardinality({e \in Elements : s.dataset[e].loaded = "true"}),
   loading |-> Cardinality({e \in Elements : s.dataset[e].loading = "true"}),
   error   |-> Cardinality({e \in Elements : s.dataset[e].error = "true"}),
   cached  |-> Cardinality(DOMAIN s.components)]

\* getStatus(): the counts it returns. A placeholder is counted only if no
\* placeholder before it in the document has its component name.
getStatus(s) ==
  LET counted == {e \in Elements :
                    \A k \in 1..(e - 1) : placeholders[k].name # placeholders[e].name}
  IN [total   |-> Cardinality(counted),
      loaded  |-> Cardinality({e \in counted : s.dataset[e].loaded = "true"}),
      loading |-> Cardinality({e \in counted : s.dataset[e].loading = "true"}),
      error   |-> Cardinality({e \in counted : s.dataset[e].error = "true"}),
      cached  |-> Cardinality(DOMAIN s.components)]

\* clearCache()
clearCache(s) == Evicted([s EXCEPT !.components = EmptyMap], DOMAIN s.components)

ClearCacheCall ==
  /\ Called
  /\ Becomes(clearCache(Cur))

RECURSIVE CleanupAll(_, _)
\* styles.forEach((styles, scopeId) => cleanupStyles(scopeId))
CleanupAll(s, scopes) ==
  IF scopes = {} THEN s
  ELSE LET k == CHOOSE x \in scopes : TRUE
       IN CleanupAll(cleanupStyles(s, k), scopes \ {k})

\* cleanup with the removal of the injected styles left out.
cleanupKeepingStyles(s) ==
  [clearCache(s) EXCEPT !.loadingStates = EmptyMap]

\* cleanup(): lines 1014-1028
cleanup(s) ==
  [CleanupAll(clearCache(s), DOMAIN s.styles) EXCEPT !.loadingStates = EmptyMap]

CleanupCall ==
  /\ Called
  /\ Becomes(cleanup(Cur))

----------------------------------------------------------------------------
(* Specifications *)

Placeholder(name, tag) == [name |-> name, tag |-> tag]

DefaultConfig ==
  [shadowDOM |-> FALSE, cache |-> TRUE, autoInit |-> TRUE, retryCount |-> 2,
   preserveAttributes |-> TRUE, scopeCSS |-> TRUE, validateCSS |-> TRUE,
   errorHandling |-> "graceful", cssParser |-> TRUE, cssom |-> FALSE]

Network(texts, errors) == [texts |-> texts, errors |-> errors]

\* No call of the rule scoper is under way.
NoScoping == [pc |-> "none", rule |-> <<>>, selector |-> <<>>, once |-> <<>>, twice |-> <<>>]

\* The loader after its class definition has been evaluated.
LoaderState(layout, cfg, net, maxCalls) ==
  /\ placeholders = layout
  /\ config = cfg
  /\ network = net
  /\ calls = maxCalls
  /\ dataset = [e \in 1..Len(layout) |-> FreshDataset]
  /\ content = [e \in 1..Len(layout) |-> OriginalContent]
  /\ shadow = [e \in 1..Len(layout) |-> NoShadow]
  /\ components = EmptyMap
  /\ styles = EmptyMap
  /\ head = {}
  /\ loadingStates = EmptyMap
  /\ loads = EmptyMap
  /\ initCall = [pc |-> "idle", i |-> 0, batches |-> <<>>, outcome |-> "pending",
                 dispatched |-> 0]
  /\ reloads = <<>>
  /\ reloadAlls = <<>>

InitState(layout, cfg, net, maxCalls) ==
  /\ LoaderState(layout, cfg, net, maxCalls)
  /\ scoping = NoScoping

LoadStep ==
  \E a \in DOMAIN loads :
    \/ FetchFails(a)
    \/ FetchSucceeds(a)
    \/ BackoffElapses(a)

\* A response arrives for a load of a loader that never retries.
FetchStep ==
  \E a \in DOMAIN loads :
    \/ FetchFails(a)
    \/ FetchSucceeds(a)

(* The loader in use: a document of two placeholders, any order of calls. *)

Layouts ==
  {<<Placeholder("header", "div"), Placeholder("header", "nav")>>,
   <<Placeholder("header", "div"), Placeholder("footer", "div")>>}

Init ==
  \E layout \in Layouts, cfg \in
      {[DefaultConfig EXCEPT !.retryCount = n, !.errorHandling = p, !.cache = c] : n \in {0, 1}, p \in {"graceful", "strict"}, c \in BOOLEAN}
      :
    InitState(layout, cfg, Network({ResourceStyled}, {"HTTP 404"}), MaxCalls)

\* A document of two placeholders is one batch: init never waits between batches.
Next ==
  \/ InitCall
  \/ LoadStep
  \/ \E e \in Elements : LoadComponentCall(e)
  \/ \E e \in Elements : RetryClick(e)
  \/ \E name \in Names : ReloadCall(name)
  \/ ReloadAllCall
  \/ ClearCacheCall
  \/ CleanupCall

Spec == Init /\ [][Next]_vars

(* One placeholder, loaded and retried, with every configured retryCount. *)

InitRetry ==
  \E cfg \in
      {[DefaultConfig EXCEPT !.retryCount = n, !.errorHandling = p] : n \in 0..MaxRetry, p \in {"graceful", "strict"}}
      :
    InitState(<<Placeholder("header", "div")>>, cfg,
              Network({ResourceStyled}, FetchErrors), RetryCalls)

NextRetry ==
  \/ LoadStep
  \/ \E e \in Elements : LoadComponentCall(e)
  \/ \E e \in Elements : RetryClick(e)

SpecRetry == InitRetry /\ [][NextRetry]_vars

(* One placeholder, loaded by init or by loadComponent, where every fetch is
   answered and every timer fires: a load that waits for a response or for
   its backoff delay takes its next step. *)

InitFair ==
  \E cfg \in
      {[DefaultConfig EXCEPT !.retryCount = 1, !.errorHandling = p] : p \in {"graceful", "strict"}}
      :
    InitState(<<Placeholder("header", "div")>>, cfg,
              Network({ResourceStyled}, {"HTTP 404"}), FairCalls)

NextFair ==
  \/ LoadStep
  \/ InitCall
  \/ \E e \in Elements : LoadComponentCall(e)

SpecFair == InitFair /\ [][NextFair]_vars /\ WF_vars(LoadStep)

(* Two components, loaded, reloaded and dropped from the cache. *)

InitCache ==
  \E cfg \in
      {[DefaultConfig EXCEPT !.retryCount = 1, !.errorHandling = p, !.cache = c] : p \in {"graceful", "strict"}, c \in BOOLEAN}
      :
    InitState(<<Placeholder("header", "div"), Placeholder("footer", "div")>>, cfg,
              Network({ResourceStyled, ResourcePlain}, {"HTTP 404"}), CacheCalls)

NextCache ==
  \/ LoadStep
  \/ \E e \in Elements : LoadComponentCall(e)
  \/ \E name \in Names : ReloadCall(name)
  \/ ClearCacheCall

SpecCache == InitCache /\ [][NextCache]_vars

(* Two instances of one component, initialised and reloaded. *)

InitReload ==
  \E cfg \in
      {[DefaultConfig EXCEPT !.retryCount = 0, !.errorHandling = p, !.cache = c] : p \in {"graceful", "strict"}, c \in BOOLEAN}
      :
    InitState(<<Placeholder("header", "div"), Placeholder("header", "nav")>>, cfg,
              Network({ResourceStyled}, {"HTTP 404"}), ReloadCalls)

NextReload ==
  \/ FetchStep
  \/ InitCall
  \/ \E name \in Names : ReloadCall(name)

SpecReload == InitReload /\ [][NextReload]_vars

(* A document of more placeholders than one batch, initialised. *)

BatchLayout ==
  [k \in 1..NumBatchPlaceholders |->
     Placeholder(IF k % 2 = 1 THEN "header" ELSE "footer", "div")]

InitBatch ==
  \E cfg \in
      {[DefaultConfig EXCEPT !.retryCount = 0, !.errorHandling = p] : p \in {"graceful", "strict"}}
      :
    InitState(BatchLayout, cfg, Network({ResourceStyled}, {"HTTP 404"}), BatchCalls)

NextBatch ==
  \/ InitCall
  \/ InitDelayElapsed
  \/ FetchStep

SpecBatch == InitBatch /\ [][NextBatch]_vars

(* Two instances of one component and every public operation, no retries. *)

InitInstances ==
  \E cfg \in
      {[DefaultConfig EXCEPT !.retryCount = 0, !.errorHandling = p] : p \in {"graceful", "strict"}}
      :
    InitState(<<Placeholder("header", "div"), Placeholder("header", "nav")>>, cfg,
              Network({ResourceStyled}, {"HTTP 404"}), InstanceCalls)

NextInstances ==
  \/ FetchStep
  \/ InitCall
  \/ \E e \in Elements : LoadComponentCall(e)
  \/ \E e \in Elements : RetryClick(e)
  \/ \E name \in Names : ReloadCall(name)
  \/ ClearCacheCall
  \/ CleanupCall

SpecInstances == InitInstances /\ [][NextInstances]_vars

(* One placeholder, loaded, retried and reloaded, with every kind of resource
   text, with and without window.CSSParser, in scoped and in shadow mode. *)

InitResources ==
  \E cfg \in
      {[DefaultConfig EXCEPT !.retryCount = 0, !.errorHandling = p, !.cssParser = g, !.shadowDOM = d] : p \in {"graceful", "strict"}, g \in BOOLEAN, d \in BOOLEAN}
      :
    InitState(<<Placeholder("header", "div")>>, cfg,
              Network({ResourceStyled, ResourcePlain, ResourceBroken, ResourceEmptyStyle,
                       ResourceScripted, ResourceUnrepaired},
                      {"HTTP 404"}),
              ResourceCalls)

NextResources ==
  \/ FetchStep
  \/ \E e \in Elements : LoadComponentCall(e)
  \/ \E e \in Elements : RetryClick(e)
  \/ \E name \in Names : ReloadCall(name)

SpecResources == InitResources /\ [][NextResources]_vars

(* CSSParser.scopeRule as a function: a rule text and a scope selector are
   chosen, the rule is scoped, and the result is scoped again. *)

\* The selectors a rule's list is made of.
SelectorTexts ==
  {<<".", "x">>,
   <<"a", ":", "b">>,
   <<":", "b", "(", ".", "x", ")">>,
   <<":", "h", "o", "s", "t">>,
   <<":", "h", "o", "s", "t", "(", ".", "x", ")", ":", "b">>,
   <<"h", "t", "m", "l">>,
   <<"-", "-", "c">>,
   <<".", "x", " ", "y", " ">>}

\* The selector lists of up to MaxSelectors selectors.
SelectorLists ==
  {Join(list, <<",">>) :
     list \in UNION {[1..n -> SelectorTexts] : n \in 1..MaxSelectors}}

\* What follows the selector list: declaration blocks with var() calls with
\* fallbacks, on one line and on several, and nothing at all.
BlockTexts ==
  {From(GoodCSS, 3),
   <<"{", "a", ":", "v", "a", "r", "(", "-", "-", "a", ",", " ", "v", "a", "r", "(", "-", "-", "b", ",", "r", ")", ")", "}">>,
   <<"{", "c", ":", "v", "a", "r", "(", "-", "-", "c", ",", "[", "i", "]", " ", "r", ")", "}">>,
   <<" ", "{", "\n", " ", "c", ":", "v", "a", "r", "(", "-", "-", "c", ",", "#", "0", ")", ";", "\n", "}">>,
   <<>>}

\* The rules handed to the scoper: style rules, an at-rule whose inner rules
\* are scoped, and an at-rule that is returned as it is.
RuleTexts ==
  {list \o block : list \in SelectorLists, block \in BlockTexts}
  \cup {<<"@", "m", "e", "d", "i", "a", " ", "x", "{", ".", "x", "{", "c", ":",
          "v", "a", "r", "(", "-", "-", "c", ",", "#", "0", ")", "}", "}">>,
        <<"@", "k", "e", "y", "f", "r", "a", "m", "e", "s", " ", "k", "{", "a",
          "{", "c", ":", "r", "}", "}">>}

InitScoper ==
  /\ LoaderState(<<>>, DefaultConfig, Network({}, {}), 0)
  /\ \E rule \in RuleTexts, scopeId \in {1, 2} :
       scoping = [NoScoping EXCEPT !.pc = "ready", !.rule = rule,
                                   !.selector = ScopeSelector(scopeId)]

\* scopeRule(rule, scopeSelector)
ScopeRuleCall ==
  /\ scoping.pc = "ready"
  /\ scoping' = [scoping EXCEPT !.pc = "once",
                                !.once = scopeRule(scoping.rule, scoping.selector)]
  /\ UNCHANGED <<placeholders, config, dataset, content, shadow, components,
                 styles, head, loadingStates, loads, initCall, reloads,
                 reloadAlls, network, calls>>

\* scopeRule(scoped, scopeSelector), on the result of the first call
ScopeRuleAgain ==
  /\ scoping.pc = "once"
  /\ scoping' = [scoping EXCEPT !.pc = "twice",
                                !.twice = scopeRule(scoping.once, scoping.selector)]
  /\ UNCHANGED <<placeholders, config, dataset, content, shadow, components,
                 styles, head, loadingStates, loads, initCall, reloads,
                 reloadAlls, network, calls>>

NextScoper ==
  \/ ScopeRuleCall
  \/ ScopeRuleAgain

SpecScoper == InitScoper /\ [][NextScoper]_vars

(* CSSParser's functions applied to a style sheet text: a text and a scope
   selector are chosen, with the CSSOM present or absent, and one function is
   called on the text. *)

\* The name, the bracketed fragment and the value of a var() call whose
\* fallback has been prefixed: names of letters and hyphens and names with a
\* digit, plain values and a value that is itself a function call.
BrokenVarArgs ==
  {<<"c">>, <<"c", "-", "d">>, <<"c", "1">>}
  \X {<<"i">>}
  \X {<<"r">>, <<"#", "0">>, <<"r", "g", "b", "(", "0", ",", "0", ")">>}

\* `.x{c:var(--n, [s] v)}`
BrokenRule(n, s, v) ==
  <<".", "x", "{", "c", ":", "v", "a", "r", "(", "-", "-">> \o n \o <<",", " ", "[">>
    \o s \o <<"]", " ">> \o v \o <<")", "}">>

\* The :host selectors, each with what follows the scope selector in its
\* scoped form: :host, :host(X), :host(X)Q and :hostQ.
HostCases ==
  {<<<<":", "h", "o", "s", "t">>, <<>>>>,
   <<<<":", "h", "o", "s", "t", "(", ".", "x", ")">>, <<".", "x">>>>,
   <<<<":", "h", "o", "s", "t", "(", ".", "x", ")", ":", "b">>, <<".", "x", ":", "b">>>>,
   <<<<":", "h", "o", "s", "t", ":", "b">>, <<":", "b">>>>,
   <<<<":", "h", "o", "s", "t", "(", ":", "b", "(", ".", "x", ")", ")">>, <<":", "b", "(", ".", "x", ")">>>>,
   <<<<":", "h", "o", "s", "t", "(", ".", "x", ")", ":", ":", "b", "(", "y", ")">>, <<".", "x", ":", ":", "b", "(", "y", ")">>>>}

\* The blocks of the :host rules, written with and without a space before {.
HostBlocks ==
  {<<"{", "c", ":", "r", "}">>, <<" ", "{", "c", ":", "r", "}">>}

\* The selectors that are to be left as they are: html, :root, body, and
\* custom-property names, of letters and with a digit.
KeptSelectors ==
  {Html, Root, Body, <<"-", "-", "c">>, <<"-", "-", "c", "1">>}

\* At-rules that are not to be scoped: @keyframes, plain, vendor-prefixed and
\* with a comment, @font-face with a URL, bare and quoted, @import, @charset,
\* @namespace, and @page, which the scoper does not know.
PassThroughTexts ==
  {<<"@", "k", "e", "y", "f", "r", "a", "m", "e", "s", " ", "k", "{", "a", "{", "c", ":",
     "r", "}", "}">>,
   <<"@", "-", "w", "e", "b", "k", "i", "t", "-", "k", "e", "y", "f", "r", "a", "m", "e",
     "s", " ", "k", "{", "a", "{", "c", ":", "r", "}", "}">>,
   <<"@", "f", "o", "n", "t", "-", "f", "a", "c", "e", "{", "s", "r", "c", ":", "u", "r",
     "l", "(", "h", "t", "t", "p", ":", "/", "/", "a", ")", "}">>,
   <<"@", "f", "o", "n", "t", "-", "f", "a", "c", "e", "{", "s", "r", "c", ":", "u", "r",
     "l", "(", "\"", "h", "t", "t", "p", ":", "/", "/", "a", "\"", ")", "}">>,
   <<"@", "i", "m", "p", "o", "r", "t", " ", "\"", "a", "\"", ";">>,
   <<"@", "c", "h", "a", "r", "s", "e", "t", " ", "\"", "u", "\"", ";">>,
   <<"@", "n", "a", "m", "e", "s", "p", "a", "c", "e", " ", "n", ";">>,
   <<"@", "p", "a", "g", "e", "{", "c", ":", "r", "}">>,
   <<"@", "k", "e", "y", "f", "r", "a", "m", "e", "s", " ", "k", "{", "/", "*", "c", "*",
     "/", "a", "{", "c", ":", "r", "}", "}">>}

\* Style sheets of a statement at-rule, which has no block, and a style rule
\* right after it, on the same line and on the next.
AfterStatementTexts ==
  {stmt \o sep \o <<".", "x", "{", "c", ":", "r", "}">> :
     stmt \in {<<"@", "i", "m", "p", "o", "r", "t", " ", "\"", "a", "\"", ";">>,
               <<"@", "c", "h", "a", "r", "s", "e", "t", " ", "\"", "u", "\"", ";">>},
     sep \in {<<>>, <<"\n">>}}

\* The texts handed to the functions: style rules of one selector, rules with
\* a prefixed fallback, one of them twice, one with a value of two lines, one
\* prefixed twice, :host rules, rules with two
\* selectors, at-rules, and style sheets of several rules.
SheetTexts ==
  {sel \o block : sel \in SelectorTexts, block \in BlockTexts} \cup
  {BrokenRule(a[1], a[2], a[3]) : a \in BrokenVarArgs} \cup
  {BrokenRule(<<"c">>, <<"i">>, <<"r">>) \o <<"\n">>
     \o BrokenRule(<<"c">>, <<"i">>, <<"r">>)} \cup
  {case[1] \o block : case \in HostCases, block \in HostBlocks} \cup
  {a \o <<",">> \o b \o <<"{", "c", ":", "r", "}">> :
     a \in KeptSelectors \cup {<<".", "x">>}, b \in KeptSelectors \cup {<<".", "x">>}} \cup
  PassThroughTexts \cup
  AfterStatementTexts \cup
  {<<"@", "m", "e", "d", "i", "a", " ", "x", "{">> \o GoodCSS \o <<"}">>} \cup
  {<<".", "x", "{", "c", ":", "r", "}", "\n", ":", "b", " ", "{", "c", ":", "r", "}">>,
   UnbalancedCSS,
   ResourceUnrepaired[2].s,
   <<".", "x", "{", "c", ":", "v", "a", "r", "(", "-", "-", "c", ",", "[", "a", "]", " ",
     "[", "b", "]", " ", "r", ")", "}">>,
   <<"a", "{", "b", ":", "\"", "}", "\"", "}", "c", "{", "}">>,
   <<"a", "{", "/", "*", "}", "*", "/", "}", "c", "{", "}">>,
   <<"a", "{", "/", "/", "}", "\n", "}", "c", "{", "}">>,
   <<"a", "{", "b", ":", "v", "a", "r", "(", "-", "-", "c", ",", "\"", "}", "\"", ")",
     "}", "c", "{", "}">>,
   <<"a", "{", "b", ":", "\"", "\\", "\\", "\"", "}", "c", "{", "}">>,
   <<"a", "{", "}", "c", "{">>,
   <<"@", "m", "e", "d", "i", "a", " ", "x", "{", "@", "s", "u", "p", "p", "o", "r", "t",
     "s", " ", "y", "{", ".", "x", "{", "c", ":", "r", "}", "}", "}">>,
   <<"}">>,
   <<".", "x", "{", "c", ":", "r", "}", "}">>,
   <<".", "x", "{", "c", ":", "\"", "}", "\"", "}">>,
   <<".", "x", "{", "/", "*", "'", "*", "/", "}">>,
   <<".", "x", "{", "c", ":", "\"", "\\", "\\", "\"", "}">>}

InitParser ==
  /\ \E cssom \in BOOLEAN :
       LoaderState(<<>>, [DefaultConfig EXCEPT !.cssom = cssom], Network({}, {}), 0)
  /\ \E css \in SheetTexts, scopeId \in {1, 2} :
       scoping = [pc |-> "ready", css |-> css, selector |-> ScopeSelector(scopeId),
                  result |-> <<>>]

\* scopeWithManualParser(css, scopeSelector)
ScopeWithManualParserCall ==
  /\ scoping.pc = "ready"
  /\ scoping' = [scoping EXCEPT !.pc = "scoped",
                                !.result = scopeWithManualParser(scoping.css,
                                                                 scoping.selector)]
  /\ UNCHANGED <<placeholders, config, dataset, content, shadow, components,
                 styles, head, loadingStates, loads, initCall, reloads,
                 reloadAlls, network, calls>>

\* parseRules(css)
ParseRulesCall ==
  /\ scoping.pc = "ready"
  /\ scoping' = [scoping EXCEPT !.pc = "parsed", !.result = parseRules(scoping.css)]
  /\ UNCHANGED <<placeholders, config, dataset, content, shadow, components,
                 styles, head, loadingStates, loads, initCall, reloads,
                 reloadAlls, network, calls>>

\* validate(css)
ValidateCall ==
  /\ scoping.pc = "ready"
  /\ scoping' = [scoping EXCEPT !.pc = "validated", !.result = validate(scoping.css)]
  /\ UNCHANGED <<placeholders, config, dataset, content, shadow, components,
                 styles, head, loadingStates, loads, initCall, reloads,
                 reloadAlls, network, calls>>

\* needsFix(css)
NeedsFixCall ==
  /\ scoping.pc = "ready"
  /\ scoping' = [scoping EXCEPT !.pc = "asked", !.result = needsFix(scoping.css)]
  /\ UNCHANGED <<placeholders, config, dataset, content, shadow, components,
                 styles, head, loadingStates, loads, initCall, reloads,
                 reloadAlls, network, calls>>

\* fixBrokenCSS(css)
FixBrokenCSSCall ==
  /\ scoping.pc = "ready"
  /\ scoping' = [scoping EXCEPT !.pc = "fixed", !.result = fixBrokenCSS(scoping.css)]
  /\ UNCHANGED <<placeholders, config, dataset, content, shadow, components,
                 styles, head, loadingStates, loads, initCall, reloads,
                 reloadAlls, network, calls>>

NextParser ==
  \/ ScopeWithManualParserCall
  \/ ParseRulesCall
  \/ ValidateCall
  \/ NeedsFixCall
  \/ FixBrokenCSSCall

SpecParser == InitParser /\ [][NextParser]_vars

(* init on a document with or without placeholders, with autoInit on or off. *)

InitStart ==
  \E layout \in {<<>>, BatchLayout}, cfg \in
      {[DefaultConfig EXCEPT !.retryCount = 0, !.errorHandling = p, !.autoInit = g] : p \in {"graceful", "strict"}, g \in BOOLEAN}
      :
    InitState(layout, cfg, Network({ResourceStyled}, {"HTTP 404"}), BatchCalls)

SpecStart == InitStart /\ [][NextBatch]_vars

----------------------------------------------------------------------------
(* The load status of a placeholder *)

StatusOf(d) ==
  IF d.loading = "true" THEN "loading"
  ELSE IF d.loaded = "true" THEN "loaded"
  ELSE IF d.error = "true" THEN "error"
  ELSE "unloaded"

Status(e) == StatusOf(dataset[e])

\* Load a returns in this step.
Returns(a) ==
  /\ a \in DOMAIN loads'
  /\ loads'[a].pc = "done"
  /\ a \in DOMAIN loads => loads[a].pc # "done"

\* A fetch of load a succeeds in this step.
FetchSucceedsIn(a) ==
  /\ loads[a].pc = "fetching"
  /\ loads'[a].pc = "done"
  /\ loads'[a].cause # "fetch"

\* A fetch of load a fails in this step.
FetchFailsIn(a) ==
  /\ loads[a].pc = "fetching"
  /\ \/ loads'[a].pc = "backoff"
     \/ loads'[a].pc = "done" /\ loads'[a].cause = "fetch"

\* Load a is the latest call of loadComponent for its placeholder.
Latest(a) == \A b \in DOMAIN loads : loads[b].element = loads[a].element => b <= a

----------------------------------------------------------------------------
(* Claims *)

\* C1: when every fetch of a load fails, the load has issued exactly
\* retryCount + 1 fetches when it gives up (never more along the way), the
\* placeholder is put in the error state in the step of the last failure, and a
\* load that is alone on its placeholder keeps it in the loading state until then.
C1_RetryExhaustion ==
  [][\A a \in DOMAIN loads' :
       /\ loads'[a].fetches <= config.retryCount + 1
       /\ (Returns(a) /\ loads'[a].cause = "fetch") =>
            /\ loads'[a].fetches = config.retryCount + 1
            /\ StatusOf(dataset'[loads'[a].element]) = "error"
       /\ (loads'[a].pc # "done" /\ ~loads'[a].raced) =>
            StatusOf(dataset'[loads'[a].element]) = "loading"]_vars

C1_Witness ==
  \E a \in DOMAIN loads :
    /\ loads[a].pc = "done"
    /\ loads[a].cause = "fetch"
    /\ config.retryCount = 2
    /\ loads[a].fetches = 3
    /\ Status(loads[a].element) = "error"

C10_CacheAfterFetch ==
  [][/\ \A name \in DOMAIN components' :
          (name \in DOMAIN components => components'[name] # components[name]) =>
             /\ config.cache
             /\ \E a \in DOMAIN loads :
                  /\ loads[a].name = name
                  /\ FetchSucceedsIn(a)
                  /\ components'[name] \in {fetchComponent(text) : text \in network.texts}
     /\ \A a \in DOMAIN loads : FetchFailsIn(a) => components' = components]_vars

C10_Witness ==
  /\ config.cache
  /\ \E a \in DOMAIN loads :
       /\ loads[a].pc = "done"
       /\ loads[a].cause = "fetch"
       /\ loads[a].fetches = 2
       /\ loads[a].name \notin DOMAIN components
  /\ \E b \in DOMAIN loads :
       /\ loads[b].pc = "done"
       /\ loads[b].cause = "none"
       /\ ~loads[b].cached
       /\ loads[b].name \in DOMAIN components
       /\ components[loads[b].name] = fetchComponent(ResourceStyled)

\* The placeholders with data-component = name.
InstanceSet(name) == {e \in Elements : placeholders[e].name = name}

\* The style elements of the head injected for the current renderings of
\* the instances of name.
InstanceStyles(name) ==
  {style \in head : style.scope \in {dataset[e].componentId : e \in InstanceSet(name)}}

\* C7: a call of reload(name) when the n >= 1 instances of name are loaded and
\* none has a load in flight evicts the cache entry of name, removes from the
\* head exactly the n style sets of the instances' renderings, and starts n
\* loads, one per instance, each with a fresh fetch; when such a reload
\* returns after all its loads succeeded undisturbed, every instance is
\* loaded; and a reload returns the number of instances.
C7_Reload ==
  [][/\ (Len(reloads') = Len(reloads) + 1) =>
          LET r == reloads'[Len(reloads')]
              inst == InstanceSet(r.name)
          IN (/\ inst # {}
              /\ \A e \in inst : Status(e) = "loaded" /\ InFlight(Cur, e) = {}) =>
               /\ r.name \notin DOMAIN components'
               /\ head' = head \ InstanceStyles(r.name)
               /\ Cardinality(head \ head') = Cardinality(inst)
               /\ \A e \in inst : dataset[e].componentId \notin DOMAIN styles'
               /\ Cardinality(r.loads) = Cardinality(inst)
               /\ r.loads \cap DOMAIN loads = {}
               /\ {loads'[a].element : a \in r.loads} = inst
               /\ \A a \in r.loads :
                    /\ loads'[a].name = r.name
                    /\ loads'[a].pc = "fetching"
                    /\ loads'[a].fetches = 1
                    /\ ~loads'[a].cached
     /\ \A k \in DOMAIN reloads' :
          (reloads'[k].pc = "done" /\ (k \in DOMAIN reloads => reloads[k].pc # "done")) =>
            /\ reloads'[k].result = Cardinality(InstanceSet(reloads'[k].name))
            /\ (\A a \in reloads'[k].loads :
                  /\ loads'[a].cause = "none"
                  /\ ~loads'[a].raced
                  /\ \A b \in DOMAIN loads' : loads'[b].element = loads'[a].element => b <= a) =>
                 \A e \in InstanceSet(reloads'[k].name) :
                   StatusOf(dataset'[e]) = "loaded"]_vars

C7_Witness ==
  \E k \in DOMAIN reloads :
    /\ reloads[k].pc = "done"
    /\ reloads[k].result = 2
    /\ \A a \in reloads[k].loads :
         /\ loads[a].cause = "none" /\ loads[a].fetches = 1 /\ ~loads[a].raced
         /\ \E b \in DOMAIN loads :
              /\ b < a
              /\ loads[b].element = loads[a].element
              /\ loads[b].cause = "none"
              /\ b \notin DOMAIN styles
    /\ \A e \in InstanceSet(reloads[k].name) : Status(e) = "loaded"
    /\ Cardinality(head) = 2

\* The loads init started for the placeholders of batch k.
BatchLoads(k) == initCall.batches[k]

\* C4: during init at most batchSize loads are in flight, and a batch is
\* started only when every load of the batches before it has settled.
C4_BatchBound ==
  /\ Cardinality({a \in DOMAIN loads : loads[a].pc # "done"}) <= batchSize
  /\ \A k \in 1..Len(initCall.batches) :
       \A j \in 1..(k - 1) :
         BatchLoads(k) # {} => \A a \in BatchLoads(j) : loads[a].pc = "done"

\* C8: init returns fulfilled, after a load was started for every placeholder
\* and has settled, whatever the outcome of each load; a placeholder whose own
\* load succeeded is loaded, whatever became of the other loads; and every
\* batch after the first is started whatever became of the loads before it.
C8_InitIsolation ==
  /\ initCall.pc = "done" =>
       /\ initCall.outcome = "fulfilled"
       /\ initCall.dispatched = 1
       /\ \A e \in Elements :
            \E a \in DOMAIN loads : loads[a].element = e /\ loads[a].pc = "done"
  /\ initCall.pc \in {"join", "done"} =>
       \A e \in Elements : \E a \in DOMAIN loads : loads[a].element = e
  /\ \A a \in DOMAIN loads :
       (loads[a].pc = "done" /\ loads[a].cause = "none") =>
          Status(loads[a].element) = "loaded"

C8_Witness ==
  /\ initCall.pc = "done"
  /\ initCall.outcome = "fulfilled"
  /\ Len(initCall.batches) = 2
  /\ \E a \in BatchLoads(1) : loads[a].outcome = "rejected"
  /\ \E a \in BatchLoads(1) : loads[a].cause = "none" /\ Status(loads[a].element) = "loaded"
  /\ \A a \in BatchLoads(2) : loads[a].cause = "none" /\ Status(loads[a].element) = "loaded"
  /\ BatchLoads(2) # {}

\* The status transitions of a placeholder.
Transitions ==
  {<<"unloaded", "loading">>, <<"loading", "loaded">>, <<"loading", "error">>,
   <<"error", "loading">>, <<"loaded", "loading">>}

Transition(from, to) == from = to \/ <<from, to>> \in Transitions

\* A call of loadComponent for placeholder e is made in this step.
Started(e) == \E a \in DOMAIN loads' \ DOMAIN loads : loads'[a].element = e

\* C2: the status of a placeholder changes only along unloaded -> loading,
\* loading -> loaded, loading -> error, error -> loading, loaded -> loading
\* (a step in which a load is started for the placeholder passes through
\* loading).
C2_StatusTransitions ==
  [][\A e \in Elements :
       IF Started(e)
         THEN /\ Transition(Status(e), "loading")
              /\ Transition("loading", StatusOf(dataset'[e]))
         ELSE Transition(Status(e), StatusOf(dataset'[e]))]_vars

\* C3: no placeholder has two loads in flight.
C3_OneLoadInFlight ==
  \A e \in Elements : Cardinality(InFlight(Cur, e)) <= 1

\* The loads started by calls of reload.
ReloadLoads == UNION {reloads[k].loads : k \in DOMAIN reloads}

\* C5: when reload started a load for a placeholder while an older load for
\* it was in flight, and no load for it is in flight any more, the
\* placeholder's content, scope id and status are those of the newer load.
C5_NewerAttemptWins ==
  \A a \in ReloadLoads :
    LET e == loads[a].element
    IN (/\ loads[a].raced
        /\ \A b \in DOMAIN loads : loads[b].element = e => b <= a /\ loads[b].pc = "done"
        /\ \E b \in DOMAIN loads : loads[b].element = e /\ b < a /\ loads[b].raced) =>
         IF loads[a].cause = "none"
           THEN /\ Status(e) = "loaded"
                /\ dataset[e].componentId = a
                /\ content[e].kind = "wrapper"
                /\ content[e].scope = a
           ELSE Status(e) = "error"

\* C6: every scope id of the registry of injected styles is the scope id
\* carried by some placeholder, no placeholder has more than one style set
\* in the head, and the head holds no style element outside the registry.
C6_NoLeakedStyles ==
  /\ \A scope \in DOMAIN styles : \E e \in Elements : dataset[e].componentId = scope
  /\ \A e \in Elements :
       Cardinality({style.scope : style \in {x \in head : loads[x.scope].element = e}}) <= 1
  /\ \A style \in head : style.scope \in DOMAIN styles

\* reload(name) is called in this step.
ReloadedIn(name) ==
  /\ Len(reloads') > Len(reloads)
  /\ \E k \in (Len(reloads) + 1)..Len(reloads') : reloads'[k].name = name

\* clearCache() or cleanup() is called in this step.
ClearedIn ==
  /\ calls' < calls
  /\ components' = EmptyMap
  /\ \A a \in DOMAIN loads' : a \in DOMAIN loads /\ loads'[a].pc = loads[a].pc
  /\ reloads' = reloads

\* C11: a step that removes an entry from the cache is a call of reload for
\* that name, of clearCache or of cleanup; and, with caching enabled, a load
\* started for a name whose entry stays in the cache is served by the entry
\* and issues no fetch.
C11_CacheKept ==
  [][/\ \A name \in DOMAIN components :
          name \notin DOMAIN components' => ReloadedIn(name) \/ ClearedIn
     /\ \A a \in DOMAIN loads' \ DOMAIN loads :
          (/\ config.cache
           /\ loads'[a].name \in DOMAIN components
           /\ loads'[a].name \in DOMAIN components') =>
             /\ loads'[a].cached
             /\ loads'[a].fetches = 0
             /\ loads'[a].pc = "done"]_vars

C11_Witness ==
  /\ "header" \in DOMAIN components
  /\ \E a \in DOMAIN loads : loads[a].cause = "fetch"
  /\ \E a \in DOMAIN loads :
       /\ loads[a].cached
       /\ loads[a].fetches = 0
       /\ loads[a].cause = "none"
       /\ \E b \in DOMAIN loads : b < a /\ loads[b].cause = "fetch"

\* C12: no record of the cache has a <style> block in its html.
C12_CachedHtmlHasNoStyle ==
  \A name \in DOMAIN components :
    \A i \in 1..Len(components[name].html) : components[name].html[i].t # "style"

\* C13: of the markers data-loading, data-loaded and data-error of a
\* placeholder at most one is "true".
C13_ExclusiveMarkers ==
  \A e \in Elements :
    Cardinality({k \in {"loading", "loaded", "error"} : dataset[e][k] = "true"}) <= 1

\* The loads started by init, in every batch so far.
InitLoads == UNION {initCall.batches[k] : k \in 1..Len(initCall.batches)}

\* C14 as stated: a call of init that has returned has dispatched the
\* all-components-loaded event exactly once.
C14_DispatchedOnce == initCall.pc = "done" => initCall.dispatched = 1

\* C14, amended: init dispatches the event at most once; a call that finds
\* autoInit on and at least one placeholder has dispatched it exactly once
\* when it returns, and not before every load it started, in every batch, has
\* settled and every batch has been started; a call that finds autoInit off
\* or no placeholder returns without dispatching it.
C14_DispatchAfterLoads ==
  /\ initCall.dispatched <= 1
  /\ initCall.dispatched = 1 =>
       /\ initCall.pc = "done"
       /\ Len(initCall.batches) * batchSize >= Len(placeholders)
       /\ \A a \in InitLoads : loads[a].pc = "done"
  /\ initCall.pc = "done" =>
       initCall.dispatched = IF config.autoInit /\ Len(placeholders) > 0 THEN 1 ELSE 0

C14_Witness ==
  /\ initCall.pc = "done"
  /\ initCall.dispatched = 1
  /\ Len(initCall.batches) = 2
  /\ Cardinality(InitLoads) = Len(placeholders)
  /\ \E a \in InitLoads : loads[a].outcome = "rejected"

\* C15: a placeholder that is loading is eventually loaded or in error, under
\* either policy, and every load eventually returns.
C15_LoadingEnds ==
  /\ (Status(1) = "loading") ~> (Status(1) \in {"loaded", "error"})
  /\ []<>(\A a \in DOMAIN loads : loads[a].pc = "done")

C15_Witness ==
  /\ config.errorHandling = "strict"
  /\ Status(1) = "error"
  /\ Cardinality(DOMAIN loads) = 2
  /\ \A a \in DOMAIN loads :
       loads[a].pc = "done" /\ loads[a].outcome = "rejected" /\ loads[a].fetches = 2

C17_ExponentialBackoff ==
  \A a \in DOMAIN loads :
    LET w == loads[a].waits
    IN /\ \A k \in 2..Len(w) : w[k] > w[k - 1]
       /\ \A k \in 3..Len(w) : w[k] * w[k - 2] = w[k - 1] * w[k - 1]

\* What a placeholder with this shadow root and this content displays: the
\* shadow tree when a shadow root is attached, its own children otherwise.
Shown(root, children) == IF root.attached THEN "shadow" ELSE children.kind

\* C18: under the graceful policy a load that fails returns with the
\* placeholder showing the error panel, and the rendered-error flag is set
\* exactly while the placeholder's content is the panel.
C18_ErrorPanelShown ==
  [][config.errorHandling = "graceful" =>
       /\ \A a \in DOMAIN loads' :
            (Returns(a) /\ loads'[a].cause # "none") =>
               Shown(shadow'[loads'[a].element], content'[loads'[a].element]) = "error"
       /\ \A e \in Elements :
            dataset'[e].errorRendered => content'[e].kind = "error"]_vars

\* The style elements of the document head tagged with this scope id.
HeadStyles(h, scopeId) == {st \in h : st.scope = scopeId}

\* C19: in scoped mode, a load that fetches markup followed by a <style> block
\* (with brace-balanced CSS of one rule with one selector) and succeeds leaves
\* the placeholder holding the markup in a wrapper marked with the load's
\* scope id, exactly one <style> in the head tagged with that scope id, whose
\* text (up to white space at its ends) is the scope selector, a space and the
\* block's CSS as it was, and the placeholder in the loaded state.
C19_ScopedRender ==
  [][\A a \in DOMAIN loads \cap DOMAIN loads' :
       (/\ FetchSucceedsIn(a)
        /\ loads'[a].outcome = "fulfilled"
        /\ ~config.shadowDOM
        /\ config.scopeCSS
        /\ loads'[a].name \in DOMAIN components'
        /\ components'[loads'[a].name].css # <<>>
        /\ validate(components'[loads'[a].name].css)) =>
          LET e == loads'[a].element
              data == components'[loads'[a].name]
              found == HeadStyles(head', a)
          IN /\ content'[e] = WrapperContent(a, data.html)
             /\ Cardinality(found) = 1
             /\ \A st \in found :
                  Trim(st.css) = ScopeSelector(a) \o <<" ">> \o data.css
             /\ StatusOf(dataset'[e]) = "loaded"]_vars

\* The text of a rule from its first { on; empty when it has no {.
Block(rule) == IF Includes(rule, "{") THEN From(rule, IndexOf(rule, "{")) ELSE <<>>

\* A rule whose prelude does not begin with @.
IsStyleRule(rule) ==
  ~StartsWith(TrimLeft(rule), <<"@">>)

\* C20: scoping a style rule changes nothing from the rule's first { on, and
\* scoping the result again with the same scope selector changes nothing from
\* that { on either: the declaration block, with every var(--x, fallback) in
\* it, is the input's, and needsFix is true of a result only if it was true of
\* the input.
C20_BlockVerbatim ==
  (scoping.pc \in {"once", "twice"} /\ IsStyleRule(scoping.rule)) =>
     /\ Block(scoping.once) = Block(scoping.rule)
     /\ needsFix(scoping.once) => needsFix(scoping.rule)
     /\ scoping.pc = "twice" =>
          /\ Block(scoping.twice) = Block(scoping.rule)
          /\ needsFix(scoping.twice) => needsFix(scoping.rule)

C20_Witness ==
  /\ scoping.pc = "twice"
  /\ scoping.rule = GoodCSS
  /\ scoping.once = scoping.selector \o <<" ">> \o GoodCSS
  /\ scoping.twice = scoping.selector \o <<" ">> \o scoping.selector \o <<" ">> \o GoodCSS

\* A selector that is neither :host-based nor html, :root, body or a --custom
\* name.
IsPlainSelector(sel) ==
  /\ ~StartsWith(sel, Host)
  /\ sel \notin {Html, Root, Body}
  /\ ~StartsWith(sel, <<"-", "-">>)

\* C21: scoping a style sheet of one style rule S { D }, S being neither
\* :host-based nor html, :root, body or a --custom name, yields the scope
\* selector, one space, and the rule as it was written (white space around the
\* whole result left aside).
C21_PrefixedVerbatim ==
  \A sel \in SelectorTexts, block \in BlockTexts \ {<<>>} :
    (/\ scoping.pc = "scoped"
     /\ scoping.css = sel \o block
     /\ IsPlainSelector(sel))
      => Trim(scoping.result) = scoping.selector \o <<" ">> \o sel \o block

\* `.x{c:var(--n, v)}`
RepairedRule(n, v) ==
  <<".", "x", "{", "c", ":", "v", "a", "r", "(", "-", "-">> \o n \o <<",", " ">>
    \o v \o <<")", "}">>

\* C22: of a rule whose var() fallback is `[s] v`, whatever the name, the
\* fragment and the value, needsFix is true and fixBrokenCSS returns the rule
\* with the fallback v; of two such rules it returns both repaired, with the
\* text between them unchanged.
C22_Repair ==
  /\ \A a \in BrokenVarArgs :
       scoping.css = BrokenRule(a[1], a[2], a[3]) =>
         /\ scoping.pc = "asked" => scoping.result = TRUE
         /\ scoping.pc = "fixed" => scoping.result = RepairedRule(a[1], a[3])
  /\ (/\ scoping.pc = "fixed"
      /\ scoping.css = BrokenRule(<<"c">>, <<"i">>, <<"r">>) \o <<"\n">>
                          \o BrokenRule(<<"c">>, <<"i">>, <<"r">>))
       => scoping.result = RepairedRule(<<"c">>, <<"r">>) \o <<"\n">>
                              \o RepairedRule(<<"c">>, <<"r">>)

RECURSIVE Nesting(_, _, _, _)
\* How the braces of a text nest from position i on, at the given depth and
\* inside the given string literal ("" outside one): "balanced", "open" when a
\* { is left unclosed, "close" when a } closes nothing. Braces in string
\* literals and in comments do not count; a backslash in a string literal
\* escapes the character after it.
Nesting(css, i, depth, quote) ==
  IF i > Len(css) THEN (IF depth = 0 THEN "balanced" ELSE "open")
  ELSE IF css[i] \notin {"\"", "'", "\\", "/", "{", "}"}
    THEN Nesting(css, i + 1, depth, quote)
  ELSE IF quote # ""
    THEN Nesting(css, IF css[i] = "\\" THEN i + 2 ELSE i + 1, depth,
                 IF css[i] = quote THEN "" ELSE quote)
  ELSE IF css[i] \in {"\"", "'"} THEN Nesting(css, i + 1, depth, css[i])
  ELSE IF css[i] = "{" THEN Nesting(css, i + 1, depth + 1, "")
  ELSE IF css[i] = "}"
    THEN (IF depth = 0 THEN "close" ELSE Nesting(css, i + 1, depth - 1, ""))
  ELSE IF i < Len(css) /\ css[i] = "/" /\ css[i + 1] = "*"
    THEN (IF \E j \in (i + 2)..(Len(css) - 1) : css[j] = "*" /\ css[j + 1] = "/"
            THEN Nesting(css,
                         2 + CHOOSE j \in (i + 2)..(Len(css) - 1) :
                               /\ css[j] = "*" /\ css[j + 1] = "/"
                               /\ \A k \in (i + 2)..(j - 1) :
                                    ~(css[k] = "*" /\ css[k + 1] = "/"),
                         depth, "")
            ELSE (IF depth = 0 THEN "balanced" ELSE "open"))
  ELSE Nesting(css, i + 1, depth, "")

\* C23: validate returns true for every text whose braces balance, nested
\* at-rules included, and false for every text with a } that closes nothing.
C23_Validate ==
  scoping.pc = "validated" =>
    /\ Nesting(scoping.css, 1, 0, "") = "balanced" => scoping.result = TRUE
    /\ Nesting(scoping.css, 1, 0, "") = "close" => scoping.result = FALSE

\* C24: a rule whose selector is :host, :host(X), :host(X)Q or :hostQ is
\* scoped to the scope selector followed directly by X, by X and Q, or by Q,
\* and then the rest of the rule as it was written (white space around the
\* whole result left aside).
C24_HostFamily ==
  \A case \in HostCases, block \in HostBlocks :
    (scoping.pc = "scoped" /\ scoping.css = case[1] \o block)
      => Trim(scoping.result) = scoping.selector \o case[2] \o block

\* C25: in the scoped form of a rule with a list of two selectors, html,
\* :root, body and every selector beginning with -- stand as they were written,
\* in the first position and in the second.
C25_KeptSelectors ==
  \A a \in KeptSelectors \cup {<<".", "x">>}, b \in KeptSelectors \cup {<<".", "x">>} :
    (/\ scoping.pc = "scoped"
     /\ scoping.css = a \o <<",">> \o b \o <<"{", "c", ":", "r", "}">>)
      => LET Kept(parts) ==
               /\ Len(parts) = 2
               /\ a \in KeptSelectors => Trim(parts[1]) = a
               /\ b \in KeptSelectors => Trim(parts[2]) = b
         IN Kept(Split(SubSeq(scoping.result, 1, IndexOf(scoping.result, "{") - 1),
                       ","))

\* C26: a rule nested in @media, also through a second at-rule, is scoped
\* where it stands and the at-rules around it are written as they were: the
\* result is the input with the scope selector and a space put before the
\* nested rule's selector (white space around the whole result left aside).
C26_NestedScoped ==
  LET P == scoping.selector
  IN scoping.pc = "scoped" =>
       /\ scoping.css = <<"@", "m", "e", "d", "i", "a", " ", "x", "{">> \o GoodCSS \o <<"}">>
            => Trim(scoping.result) =
                 <<"@", "m", "e", "d", "i", "a", " ", "x", "{">> \o P \o <<" ">> \o GoodCSS \o <<"}">>
       /\ scoping.css = <<"@", "m", "e", "d", "i", "a", " ", "x", "{", "@", "s", "u", "p", "p", "o", "r", "t",
                 "s", " ", "y", "{", ".", "x", "{", "c", ":", "r", "}", "}", "}">>
            => Trim(scoping.result) =
                 <<"@", "m", "e", "d", "i", "a", " ", "x", "{", "@", "s", "u", "p", "p", "o", "r", "t",
                   "s", " ", "y", "{">>
                   \o P \o <<" ">> \o <<".", "x", "{", "c", ":", "r", "}", "}", "}">>

\* C27: scoping a style sheet that is one @keyframes, @font-face, @import,
\* @charset, @namespace or unknown at-rule returns the rule as it was written
\* (white space around the whole result left aside).
C27_PassThrough ==
  (scoping.pc = "scoped" /\ scoping.css \in PassThroughTexts)
    => Trim(scoping.result) = scoping.css

RECURSIVE Closes(_, _, _, _)
\* The number of } in a text, from position i on, that close a block opened at
\* depth 0, not counting braces in string literals; a backslash in a string
\* literal escapes the character after it.
Closes(css, i, depth, quote) ==
  IF i > Len(css) THEN 0
  ELSE IF css[i] \notin {"\"", "'", "\\", "{", "}"}
    THEN Closes(css, i + 1, depth, quote)
  ELSE IF quote # ""
    THEN Closes(css, IF css[i] = "\\" THEN i + 2 ELSE i + 1, depth,
                IF css[i] = quote THEN "" ELSE quote)
  ELSE IF css[i] \in {"\"", "'"} THEN Closes(css, i + 1, depth, css[i])
  ELSE IF css[i] = "{" THEN Closes(css, i + 1, depth + 1, "")
  ELSE IF css[i] = "}"
    THEN (IF depth = 1 THEN 1 ELSE 0) + Closes(css, i + 1, depth - 1, "")
  ELSE Closes(css, i + 1, depth, "")

\* C28: every rule the tokenizer emits holds at most one top-level block, and
\* every rule but the last is brace-balanced, braces in string literals not
\* counting.
C28_TopLevelRules ==
  scoping.pc = "parsed" =>
    \A k \in 1..Len(scoping.result) :
      /\ Closes(scoping.result[k], 1, 0, "") <= 1
      /\ k < Len(scoping.result) => Nesting(scoping.result[k], 1, 0, "") = "balanced"

\* C29: in Shadow DOM mode, a load that renders, from a fetch or from the
\* cache, leaves the placeholder's shadow root attached and holding the
\* component's CSS as it was extracted and its markup, and nothing of an
\* earlier render; the document head and the registry of injected styles are
\* as they were.
C29_IsolatedRender ==
  [][\A a \in DOMAIN loads' :
       (/\ config.shadowDOM
        /\ a \in DOMAIN loads => loads[a].pc # "done"
        /\ loads'[a].pc = "done"
        /\ loads'[a].cause = "none"
        /\ loads'[a].name \in DOMAIN components') =>
          LET e == loads'[a].element
              data == components'[loads'[a].name]
          IN /\ shadow'[e].attached
             /\ shadow'[e].css = data.css
             /\ shadow'[e].html = data.html
             /\ head' = head
             /\ styles' = styles]_vars

\* A second render into the same shadow root has happened, and it brought CSS.
C29_Witness ==
  /\ config.shadowDOM
  /\ Cardinality({a \in DOMAIN loads : loads[a].pc = "done" /\ loads[a].cause = "none"}) = 2
  /\ shadow[1].attached
  /\ shadow[1].css = GoodCSS
  /\ head = {}

\* C30: a load that renders a component whose markup has a <script> leaves
\* the scripts of the content it inserted, in the placeholder or in its shadow
\* root, replaced by fresh copies exactly once, and the scripts of the content
\* it did not insert not replaced again.
C30_ScriptsOnce ==
  [][\A a \in DOMAIN loads' :
       (/\ a \in DOMAIN loads => loads[a].pc # "done"
        /\ loads'[a].pc = "done"
        /\ loads'[a].cause = "none"
        /\ loads'[a].name \in DOMAIN components'
        /\ \E i \in 1..Len(components'[loads'[a].name].html) :
             components'[loads'[a].name].html[i].t = "script") =>
          LET e == loads'[a].element
          IN IF config.shadowDOM
               THEN shadow'[e].ran = 1 /\ content'[e].ran = content[e].ran
               ELSE content'[e].ran = 1 /\ shadow'[e].ran = shadow[e].ran]_vars

\* C31: in scoped mode with CSS scoping enabled, needsFix is false of the text
\* of every <style> in the head.
C31_InjectedRepaired ==
  (~config.shadowDOM /\ config.scopeCSS) => \A st \in head : ~needsFix(st.css)

\* The placeholders whose marker k ("loaded", "loading" or "error") is set.
Marked(k) == {e \in Elements : dataset[e][k] = "true"}

\* C32 as stated: the loaded, loading and error counts of getStatus are the
\* numbers of placeholders with the loaded, loading and error marker, and its
\* cached count is the number of cache entries.
C32_CountsPlaceholders ==
  /\ getStatus(Cur).loaded = Cardinality(Marked("loaded"))
  /\ getStatus(Cur).loading = Cardinality(Marked("loading"))
  /\ getStatus(Cur).error = Cardinality(Marked("error"))
  /\ getStatus(Cur).cached = Cardinality(DOMAIN components)

\* C32, amended: the counts of getStatus are numbers of component names: a
\* name is counted as loaded, loading or error when the first placeholder in
\* the document that carries the name has that marker, whatever the markers
\* of the name's other placeholders; the cached count is the number of cache
\* entries.
C32_CountsNames ==
  LET First(name) == Instances(name)[1]
      Present == {name \in Names : Instances(name) # <<>>}
      NamesMarked(k) == {name \in Present : First(name) \in Marked(k)}
  IN /\ getStatus(Cur).total = Cardinality(Present)
     /\ getStatus(Cur).loaded = Cardinality(NamesMarked("loaded"))
     /\ getStatus(Cur).loading = Cardinality(NamesMarked("loading"))
     /\ getStatus(Cur).error = Cardinality(NamesMarked("error"))
     /\ getStatus(Cur).cached = Cardinality(DOMAIN components)

\* Both placeholders of one component are loaded, and getStatus counts one.
C32_Witness ==
  /\ Marked("loaded") = {1, 2}
  /\ getStatus(Cur).loaded = 1
  /\ getStatus(Cur).cached = 1

\* C33: when cleanup returns, no <style> injected by the loader is left in
\* the document head, and the registry of injected styles, the component
\* cache and the registry of load attempts are empty.
C33_CleanupEmpties ==
  [][CleanupCall =>
       /\ head' = {}
       /\ styles' = EmptyMap
       /\ components' = EmptyMap
       /\ loadingStates' = EmptyMap]_vars

\* cleanup has acted on a document with a rendered component: the component
\* is displayed in its wrapper, and its style is gone from the head.
C33_Witness ==
  /\ dataset[1].loaded = "true"
  /\ content[1].kind = "wrapper"
  /\ head = {}
  /\ styles = EmptyMap
  /\ components = EmptyMap
  /\ loadingStates = EmptyMap
  /\ \A a \in DOMAIN loads : loads[a].pc = "done"

\* C37: the registry of injected styles and the document head agree: a
\* <style> tagged with scope id s is in the head if and only if it is listed
\* under s in the registry.
C37_HeadAgreesWithRegistry ==
  LET Listed(s) == IF s \in DOMAIN styles
                     THEN {styles[s][k] : k \in 1..Len(styles[s])}
                     ELSE {}
  IN /\ \A st \in head : st \in Listed(st.scope)
     /\ \A s \in DOMAIN styles : \A st \in Listed(s) : st.scope = s /\ st \in head

\* A reload has removed the style of the first render and its load has
\* injected the style of the second: one style, of the later scope, is left.
C37_Witness ==
  /\ \E r \in DOMAIN reloads : reloads[r].pc = "done" /\ reloads[r].n = 2
  /\ Cardinality(head) = 1
  /\ \A st \in head : st.scope > 1

\* C34: the component:loaded event of a load carries fromCache true exactly
\* when the cache served the load, with no fetch issued for it, and false
\* when the content was fetched.
C34_CacheHitFlag ==
  \A a \in DOMAIN loads : \A k \in 1..Len(loads[a].dispatched) :
    /\ loads[a].dispatched[k].fromCache = loads[a].cached
    /\ loads[a].dispatched[k].fromCache = (loads[a].fetches = 0)

\* C35: a placeholder whose loaded marker is set has no error marker, no
\* error message and no rendered-error flag.
C35_LoadedCarriesNoError ==
  \A e \in Elements :
    dataset[e].loaded = "true" =>
      /\ dataset[e].error = "absent"
      /\ dataset[e].errorMessage = "absent"
      /\ ~dataset[e].errorRendered

\* C36: once a call of reload(name) and the loads it started have completed,
\* the cache entry of name, if there is one, is the record of a fetch that
\* started after the reload evicted the entry: the call that stored it was
\* started by the reload or later, not before.  (The loader does not retry
\* here, so a call's one fetch starts when the call does.)
C36_ReloadedEntryIsFresh ==
  \A r \in DOMAIN reloads :
    (/\ reloads[r].pc = "done"
     /\ reloads[r].loads # {}
     /\ \A a \in reloads[r].loads : loads[a].pc = "done"
     /\ reloads[r].name \in DOMAIN components) =>
      \E a \in DOMAIN loads :
        /\ loads[a].name = reloads[r].name
        /\ loads[a].stored
        /\ \E b \in reloads[r].loads : b <= a

\* C38 as stated: loadingStates holds entries only for calls of loadComponent
\* that have not returned.
C38_RegistryHoldsInFlight ==
  \A a \in DOMAIN loadingStates : loads[a].pc # "done"

\* C38, amended: loadingStates holds entries only for calls that have not
\* returned or that have failed, the latter with their error recorded; and an
\* entry leaves the registry only when its call succeeds or by cleanup.
C38_RegistryHoldsInFlightOrFailed ==
  /\ [](\A a \in DOMAIN loadingStates :
          \/ loads[a].pc # "done"
          \/ loads[a].err # "none" /\ loadingStates[a].error = loads[a].err)
  /\ [][\A a \in DOMAIN loadingStates :
          \/ a \in DOMAIN loadingStates'
          \/ loads[a].pc # "done" /\ loads'[a].pc = "done" /\ loads'[a].err = "none"
          \/ CleanupCall]_vars

\* No load is in flight; one has succeeded and has no entry, one has failed
\* and has its entry.
C38_Witness ==
  /\ \A a \in DOMAIN loads : loads[a].pc = "done"
  /\ \E a \in DOMAIN loads : loads[a].err = "none" /\ a \notin DOMAIN loadingStates
  /\ \E a \in DOMAIN loadingStates : loadingStates[a].error = "HTTP 404"

\* C39: in the result of scoping a style sheet of a statement at-rule and the
\* style rule `.x{c:r}` after it, the rule stands with the scope selector and
\* one space before it.
C39_ScopedAfterStatement ==
  (scoping.pc = "scoped" /\ scoping.css \in AfterStatementTexts) =>
    LET scoped == scoping.selector \o <<" ", ".", "x", "{", "c", ":", "r", "}">>
    IN \E i \in 1..Len(scoping.result) :
         /\ i + Len(scoped) - 1 <= Len(scoping.result)
         /\ SubSeq(scoping.result, i, i + Len(scoped) - 1) = scoped

\* C40: of every text c, needsFix is false of fixBrokenCSS(c), fixBrokenCSS
\* leaves fixBrokenCSS(c) as it is, and fixBrokenCSS(c) is c when needsFix is
\* false of c.
C40_RepairCompleteIdempotent ==
  scoping.pc = "fixed" =>
    /\ ~needsFix(scoping.result)
    /\ fixBrokenCSS(scoping.result) = scoping.result
    /\ ~needsFix(scoping.css) => scoping.result = scoping.css

====
